---- MODULE Spec2Model ----
(***************************************************************************)
(* The job orchestration engine of social_recipes: JobManager              *)
(* (src/ui/job_manager.py), the job / history tables (src/ui/database.py)  *)
(* and the pipeline body process_video_job with the confirmation gate and  *)
(* its REST / WebSocket handlers (src/ui/app.py).                          *)
(*                                                                         *)
(* Every job thread is a process whose position is pc[j]; a label "Lnnn"   *)
(* is line nnn of the file that holds the statement.  Each step performs   *)
(* one access to shared state (a table row, the flag registry, the         *)
(* in-process pending_uploads dict, the semaphore), so that every          *)
(* interleaving of the threads and the request handlers is explored.       *)
(***************************************************************************)
EXTENDS Integers, Sequences, FiniteSets, TLC

\* ------------------------------------------------------------------ bounds

\* JobManager.MAX_CONCURRENT_JOBS
MAX_CONCURRENT_JOBS == 3

\* job ids create_job may hand out under Spec
MaxJobs == 1

\* job ids create_job may hand out under SchedSpec
SchedJobs == 4

\* jobs submitted around a restart
RestartJobs == 2

\* frames the image extractor keeps as candidates
NumCandidates == 2

\* iterations of the confirmation wait loop (timeout_seconds / poll_interval,
\* 300 in the source, scaled down)
TimeoutPolls == 2

\* cancel_job requests per behaviour
MaxCancels == 1

\* confirm / cancel requests (REST and WebSocket together) per behaviour
MaxResolves == 2

\* process restarts per behaviour
MaxRestarts == 1

AllIds == 1..(IF MaxJobs > SchedJobs THEN MaxJobs ELSE SchedJobs)

\* ------------------------------------------------------------------ values

NoTitle == "no_title"
NoError == "no_error"
None == "None"

Terminal == {"completed", "failed", "cancelled"}

RestartMsg == "Server was restarted during processing. Please retry."
TimeoutMsg == "Upload confirmation timed out"

VARIABLES
    \* --- persisted (SQLite) ---
    recipe_jobs,        \* table recipe_jobs: job id -> row
    recipe_history,     \* table recipe_history: job id -> rows of that job, oldest first
    pending_store,      \* pending-confirmation table: upload id -> row
    \* --- JobManager, in memory ---
    active_jobs,        \* self.active_jobs
    job_threads,        \* keys of self.job_threads
    cancellation_flags, \* self.cancellation_flags: job id -> is_set()
    semaphore,          \* free permits of self.semaphore
    \* --- app.py, in memory ---
    pending_uploads,    \* the pending_uploads dict: upload id -> entry
    \* --- job threads ---
    pc,                 \* position of each job's thread
    locals,             \* local variables of process_video_job
    \* --- request handlers in flight ---
    cancel_pc,          \* cancel_job calls between the flag and the UPDATE
    rest_pc,            \* REST confirm / cancel between the UPDATE and the dict
    \* --- environment ---
    next_id,            \* the next id create_job hands out
    config,             \* the deployment's config values
    collab,             \* outcomes each collaborator may produce
    budget,             \* requests the environment may still make
    \* --- what the clients have seen last ---
    events,             \* job id -> the last event pushed for the job
    cancel_result,      \* job id -> what the last cancel_job call returned
    rest_reply,         \* upload id -> the answer to the last REST confirm / cancel
    \* --- history of the behaviour ---
    cancel_true,        \* jobs for which cancel_job has returned True
    confirm_true,       \* uploads whose REST confirm was answered 'confirmed'
    resolve_calls,      \* upload id -> confirm / cancel requests made
    took_effect,        \* upload id -> requests that changed its resolution
    body_calls,         \* job id -> complete_job / fail_job calls of its pipeline
    preview_sent,       \* uploads whose recipe_preview event went out
    export_invoked,     \* jobs for which an export to a target was invoked
    max_ids,            \* ids create_job may hand out
    log                 \* what has happened so far, for the properties

vars == <<recipe_jobs, recipe_history, pending_store, active_jobs, job_threads,
          cancellation_flags, semaphore, pending_uploads, pc, locals,
          cancel_pc, rest_pc, next_id, config, collab, budget, events, cancel_result,
          rest_reply,
          cancel_true, confirm_true, resolve_calls, took_effect, body_calls,
          preview_sent, export_invoked, max_ids, log>>

envVars == <<config, collab, max_ids>>

gateVars == <<pending_store, pending_uploads, rest_pc, confirm_true, resolve_calls,
              took_effect, preview_sent>>

outVars == <<events, cancel_result, rest_reply>>

NoEvent == [tick |-> 0, name |-> "none", stage |-> "", percent |-> 0]

\* socketio.emit(name, {...}, room=f'job_{job_id}') followed by the same
\* socketio.emit(name, {...}) to everyone, as every publisher does: the pair
\* becomes the job's last event, and tick flips so that a repeated event shows
Emitted(evs, j, name, stage, percent) ==
    [evs EXCEPT ![j] = [tick |-> 1 - @.tick, name |-> name, stage |-> stage,
                        percent |-> percent]]

\* ------------------------------------------------------------- database.py

\* a create_job whose row starts as a running job
db_create_job_running(tbl, j) ==
    [i \in DOMAIN tbl \cup {j} |->
        IF i = j
        THEN [status |-> "downloading", progress |-> 10, current_stage |-> "info",
              stage_message |-> "Waiting to start...", video_title |-> NoTitle,
              error_message |-> NoError]
        ELSE tbl[i]]

\* create_job: INSERT ... VALUES (?, ?, 'pending', 0, 'pending', 'Waiting to start...')
db_create_job(tbl, j) ==
    [i \in DOMAIN tbl \cup {j} |->
        IF i = j
        THEN [status |-> "pending", progress |-> 0, current_stage |-> "pending",
              stage_message |-> "Waiting to start...", video_title |-> NoTitle,
              error_message |-> NoError]
        ELSE tbl[i]]

\* get_job: whether SELECT * FROM recipe_jobs WHERE id = ? finds a row
get_job(tbl, j) == j \in DOMAIN tbl

\* get_active_jobs: WHERE status NOT IN ('completed', 'failed', 'cancelled')
get_active_jobs(tbl) == {j \in DOMAIN tbl : tbl[j].status \notin Terminal}

\* an update_job_progress that stores whatever title it is given
update_job_progress_sets_any_title(tbl, j, status, progress, current_stage, stage_message, video_title) ==
    IF j \in DOMAIN tbl
    THEN [tbl EXCEPT ![j] =
            [@ EXCEPT !.status = status, !.progress = progress,
                      !.current_stage = current_stage,
                      !.stage_message = stage_message,
                      !.video_title = video_title]]
    ELSE tbl

\* update_job_progress: one UPDATE, with video_title among the columns only
\* `if video_title:` (neither None nor the empty text)
update_job_progress(tbl, j, status, progress, current_stage, stage_message, video_title) ==
    IF j \in DOMAIN tbl
    THEN [tbl EXCEPT ![j] =
            [@ EXCEPT !.status = status, !.progress = progress,
                      !.current_stage = current_stage,
                      !.stage_message = stage_message,
                      !.video_title = IF video_title \notin {NoTitle, ""}
                                      THEN video_title ELSE @]]
    ELSE tbl

\* fail_job: SET status = 'failed', error_message = ? WHERE id = ?
db_fail_job(tbl, j, error_message) ==
    IF j \in DOMAIN tbl
    THEN [tbl EXCEPT ![j] = [@ EXCEPT !.status = "failed", !.error_message = error_message]]
    ELSE tbl

\* a cancel_job that also resets the stage of the row
db_cancel_job_resets_stage(tbl, j) ==
    IF j \in DOMAIN tbl
    THEN [tbl EXCEPT ![j] = [@ EXCEPT !.status = "cancelled", !.progress = 0,
                                      !.current_stage = "pending"]]
    ELSE tbl

\* cancel_job: SET status = 'cancelled' WHERE id = ?
db_cancel_job(tbl, j) ==
    IF j \in DOMAIN tbl
    THEN [tbl EXCEPT ![j] = [@ EXCEPT !.status = "cancelled"]]
    ELSE tbl

\* cursor.rowcount > 0 of an UPDATE ... WHERE id = ?
rowcount_positive(tbl, j) == j \in DOMAIN tbl

\* complete_job: SET status = 'completed', progress = 100 WHERE id = ?
db_complete_job(tbl, j) ==
    IF j \in DOMAIN tbl
    THEN [tbl EXCEPT ![j] = [@ EXCEPT !.status = "completed", !.progress = 100]]
    ELSE tbl

\* create_history_entry with the INSERT left out for a failed run
create_history_entry_skips_failed(hist, j, video_title, status, error_message, output_target) ==
    IF status = "failed"
    THEN hist
    ELSE [hist EXCEPT ![j] = Append(@, [job_id |-> j, video_title |-> video_title,
                                        status |-> status, error_message |-> error_message,
                                        output_target |-> output_target])]

\* create_history_entry: INSERT INTO recipe_history
create_history_entry(hist, j, video_title, status, error_message, output_target) ==
    [hist EXCEPT ![j] = Append(@, [job_id |-> j, video_title |-> video_title,
                                   status |-> status, error_message |-> error_message,
                                   output_target |-> output_target])]

\* ---------------------------------------------------------- job_manager.py

\* a table without the `preview` stage
status_map_without_preview(stage) ==
    CASE stage = "pending"   -> "pending"
      [] stage = "info"      -> "downloading"
      [] stage = "download"  -> "downloading"
      [] stage = "transcribe" -> "transcribing"
      [] stage = "visual"    -> "extracting"
      [] stage = "image"     -> "extracting"
      [] stage = "evaluate"  -> "creating"
      [] stage = "upload"    -> "uploading"
      [] stage = "complete"  -> "completed"
      [] stage = "error"     -> "failed"
      [] stage = "cancelled" -> "cancelled"
      [] OTHER               -> "processing"

\* update_progress: status_map.get(stage, 'processing')
status_map(stage) ==
    CASE stage = "pending"   -> "pending"
      [] stage = "info"      -> "downloading"
      [] stage = "download"  -> "downloading"
      [] stage = "transcribe" -> "transcribing"
      [] stage = "visual"    -> "extracting"
      [] stage = "image"     -> "extracting"
      [] stage = "evaluate"  -> "creating"
      [] stage = "preview"   -> "awaiting_confirmation"
      [] stage = "upload"    -> "uploading"
      [] stage = "complete"  -> "completed"
      [] stage = "error"     -> "failed"
      [] stage = "cancelled" -> "cancelled"
      [] OTHER               -> "processing"

\* is_cancelled answering False whatever the flag
is_cancelled_ignores_flag(j) == FALSE

\* is_cancelled: flag.is_set() if flag else False
is_cancelled(j) ==
    IF j \in DOMAIN cancellation_flags THEN cancellation_flags[j] ELSE FALSE

\* `selected_image_index` of a request that carries none (Python's None)
NoIndex == -1

\* an image file, by its name and by the video frame it shows
NoImage == [file |-> "None", frame |-> NoIndex]

\* dish_frames/dish_candidate_{i:02d}.jpg, the i-th frame taken from the video
Candidate(i) == [file |-> "dish_candidate", frame |-> i]

\* dish.jpg, the enhanced copy of the frame the selector picked
Dish(k) == [file |-> "dish.jpg", frame |-> k]

\* the candidate list, sorted by file name (Python indexes it from 0)
Candidates == [i \in 1..NumCandidates |-> Candidate(i - 1)]

\* the thread of job j is in the wait loop of the gate (lines 1043-1068)
Parked(j) == pc[j] \in {"L1045", "L1050", "L1065"}

\* the statuses of a job on its way that has not reached the upload stage
BeforeUpload ==
    {"pending", "downloading", "transcribing", "extracting", "creating",
     "awaiting_confirmation"}

\* the statuses _restore_active_jobs takes for a stale running job
StaleStatuses == {"downloading", "transcribing", "extracting", "creating", "uploading"}

\* visual_text = "" (line 879) and the text read from the video or its cache
NoText == ""
OnScreenText == "on-screen text"

InitLocals ==
    [in_update |-> FALSE, error_message |-> NoError, elapsed |-> 0,
     confirmed |-> FALSE, db_confirmed |-> FALSE, db_upload |-> None,
     pending_data |-> None, upload_targets |-> <<>>, target_ix |-> 1,
     upload_results |-> <<>>, image_path |-> NoImage, image_cache |-> NoImage,
     image_candidates |-> <<>>, best_image_index |-> 0, selected_idx |-> 0,
     visual_text |-> NoText]

\* ------------------------------------------------- app.py: process_video_job

\* an update_progress call whose percent counts down
U_percent_counts_down(stage, message, percent, title, next) ==
    [stage |-> stage, message |-> message, percent |-> 100 - percent,
     video_title |-> title, next |-> next]

\* one jm.update_progress(job_id, stage, message, percent, video_title) call
\* and the label of the statement after it
U(stage, message, percent, title, next) ==
    [stage |-> stage, message |-> message, percent |-> percent,
     video_title |-> title, next |-> next]

\* every jm.update_progress call of the pipeline body, by line, with the
\* statement that follows it
Progress ==
       "L835"  :> U("info", "Fetching video information...", 10, NoTitle, "L837")
    @@ "L840"  :> U("info", "Video: title", 15, "title", "L842")
    @@ "L846"  :> U("download", "Downloading video...", 20, NoTitle, "L847")
    @@ "L852"  :> U("download", "Video downloaded successfully", 30, NoTitle, "L854")
    @@ "L858"  :> U("transcribe", "Transcribing audio...", 35, NoTitle, "L864")
    @@ "L865"  :> U("transcribe", "Using cached transcription", 40, NoTitle, "L872")
    @@ "L872"  :> U("transcribe", "Audio transcribed", 50, NoTitle, "L874")
    @@ "L878"  :> U("visual", "Extracting on-screen text...", 55, NoTitle, "L881")
    @@ "L882"  :> U("visual", "Using cached visual text", 60, NoTitle, "L892")
    @@ "L891"  :> U("visual", "Warning: Could not extract visual text", 60, NoTitle, "L892")
    @@ "L892"  :> U("visual", "Visual text extracted", 65, NoTitle, "L894")
    @@ "L907"  :> U("image", "Extracting dish image candidates...", 70, NoTitle, "L915")
    @@ "L916"  :> U("image", "Using cached dish images", 75, NoTitle, "L932")
    @@ "L931"  :> U("image", "Warning: Could not extract image", 75, NoTitle, "L932")
    @@ "L932"  :> U("image", "Image candidates extracted", 80, NoTitle, "L934")
    @@ "L938"  :> U("evaluate", "Creating recipe with AI...", 85, NoTitle, "L941")
    @@ "L947"  :> U("evaluate", "Recipe created successfully", 90, NoTitle, "L949")
    @@ "L955"  :> U("preview", "Waiting for your confirmation...", 90, NoTitle, "L980")
    @@ "L1092" :> U("cancelled", "Upload cancelled by user", 100, NoTitle, "L1093")
    @@ "L1109" :> U("upload", "Uploading", 95, NoTitle, "L1113")
    @@ "L1111" :> U("upload", "Uploading", 95, NoTitle, "L1113")
    @@ "L1121" :> U("upload", "Uploading to Tandoor and Mealie...", 95, NoTitle, "L1128")
    @@ "L1163" :> U("complete", "Recipe uploaded. Failed: some", 100, NoTitle, "W112")
    @@ "L1168" :> U("complete", "Recipe uploaded successfully", 100, NoTitle, "W112")

\* checkpoints after which the preview is shown whatever the policy
Checkpoints_always_previews(cfg) ==
       "L831"  :> "L835"
    @@ "L842"  :> "L846"
    @@ "L854"  :> "L858"
    @@ "L874"  :> "L878"
    @@ "L894"  :> "L907"
    @@ "L934"  :> "L938"
    @@ "L949"  :> "L955"
    @@ "L1113" :> (IF cfg.EXPORT_TO_BOTH THEN "L1121" ELSE "L1128")

\* every `if jm.is_cancelled(job_id): return` of the pipeline body, by line,
\* with the statement reached when the flag is clear
Checkpoints(cfg) ==
       "L831"  :> "L835"
    @@ "L842"  :> "L846"
    @@ "L854"  :> "L858"
    @@ "L874"  :> "L878"
    @@ "L894"  :> "L907"
    @@ "L934"  :> "L938"
    @@ "L949"  :> (IF cfg.CONFIRM_BEFORE_UPLOAD THEN "L955" ELSE "L1111")
    @@ "L1113" :> (IF cfg.EXPORT_TO_BOTH THEN "L1121" ELSE "L1128")

\* lines 1116-1124: upload_targets
UploadTargets(cfg) ==
    IF cfg.EXPORT_TO_BOTH THEN <<"tandoor", "mealie">> ELSE <<cfg.OUTPUT_TARGET>>

\* every jm.fail_job call of the pipeline body, by line, with its message
FailCalls ==
       "L849"  :> "Failed to download video"
    @@ "L944"  :> "Failed to create recipe"
    @@ "L1081" :> TimeoutMsg
    @@ "L1156" :> "All uploads failed"

\* an error message that does not say what went wrong
ErrorMessage_generic(e) == "Error: processing failed"

\* line 1171: f'Error: {str(e)}'
ErrorMessage(e) == "Error: " \o e

\* a statement of the body that touches only the thread's own variables
Goto(j, label) == pc' = [pc EXCEPT ![j] = label]

\* an exception raised inside the try block, caught at line 1170 with its
\* message str(e)
Raise(j, what) ==
    /\ pc' = [pc EXCEPT ![j] = "L1171"]
    /\ locals' = [locals EXCEPT ![j].error_message = what]

\* ------------------------------------------------- JobManager: the scheduler

\* create_new_job (job_manager.py 74-94) with database.create_job
CreateNewJob ==
    /\ next_id <= max_ids
    /\ next_id \notin DOMAIN cancel_pc
    /\ recipe_jobs' = db_create_job(recipe_jobs, next_id)
    /\ active_jobs' = [i \in DOMAIN active_jobs \cup {next_id} |->
                          IF i = next_id THEN [status |-> "pending", progress |-> 0]
                          ELSE active_jobs[i]]
    /\ cancellation_flags' = [i \in DOMAIN cancellation_flags \cup {next_id} |->
                                 IF i = next_id THEN FALSE ELSE cancellation_flags[i]]
    /\ next_id' = next_id + 1
    /\ UNCHANGED outVars
    /\ UNCHANGED <<recipe_history, job_threads, semaphore, pc, locals, cancel_pc,
                   budget, cancel_true, body_calls, export_invoked, envVars, gateVars>>
    /\ UNCHANGED log

\* start_job (job_manager.py 96-118): the thread is registered and started
StartJob(j) ==
    /\ pc[j] = "idle"
    /\ j \in DOMAIN cancellation_flags
    /\ job_threads' = job_threads \cup {j}
    /\ Goto(j, "W106")
    /\ UNCHANGED outVars
    /\ UNCHANGED <<recipe_jobs, recipe_history, active_jobs, cancellation_flags,
                   semaphore, locals, cancel_pc, next_id, budget, cancel_true,
                   body_calls, export_invoked, envVars, gateVars>>
    /\ UNCHANGED log

\* wrapped_process with an acquire() that does not wait for a permit
Acquire_without_wait(j) ==
    /\ pc[j] = "W106"
    /\ semaphore' = semaphore - 1
    /\ Goto(j, "W108")
    /\ UNCHANGED outVars
    /\ UNCHANGED <<recipe_jobs, recipe_history, active_jobs, job_threads,
                   cancellation_flags, locals, cancel_pc, next_id, budget,
                   cancel_true, body_calls, export_invoked, envVars, gateVars>>
    /\ UNCHANGED log

\* wrapped_process, line 106: self.semaphore.acquire()
Acquire(j) ==
    /\ pc[j] = "W106"
    /\ semaphore > 0
    /\ semaphore' = semaphore - 1
    /\ Goto(j, "W108")
    /\ UNCHANGED outVars
    /\ UNCHANGED <<recipe_jobs, recipe_history, active_jobs, job_threads,
                   cancellation_flags, locals, cancel_pc, next_id, budget,
                   cancel_true, body_calls, export_invoked, envVars, gateVars>>
    /\ UNCHANGED log

\* wrapped_process with the return of a cancelled job outside the try block
WrappedCheck_return_outside_try(j) ==
    /\ pc[j] = "W108"
    /\ Goto(j, IF is_cancelled(j) THEN "W113"
               ELSE IF ~get_job(recipe_jobs, j) THEN "W112" ELSE "L831")
    /\ UNCHANGED outVars
    /\ UNCHANGED <<recipe_jobs, recipe_history, active_jobs, job_threads,
                   cancellation_flags, semaphore, locals, cancel_pc, next_id,
                   budget, cancel_true, body_calls, export_invoked, envVars, gateVars>>
    /\ log' = IF is_cancelled(j) \/ ~get_job(recipe_jobs, j) THEN log
               ELSE [log EXCEPT !.invoked = @ \cup {j}]

\* wrapped_process, lines 108-110, and process_video_job, lines 813-815
WrappedCheck(j) ==
    /\ pc[j] = "W108"
    /\ Goto(j, IF is_cancelled(j) \/ ~get_job(recipe_jobs, j) THEN "W112" ELSE "L831")
    /\ UNCHANGED outVars
    /\ UNCHANGED <<recipe_jobs, recipe_history, active_jobs, job_threads,
                   cancellation_flags, semaphore, locals, cancel_pc, next_id,
                   budget, cancel_true, body_calls, export_invoked, envVars, gateVars>>
    /\ log' = IF is_cancelled(j) \/ ~get_job(recipe_jobs, j) THEN log
               ELSE [log EXCEPT !.invoked = @ \cup {j}]

\* a release() that already drops the job's cancellation flag
Release_drops_flag(j) ==
    /\ pc[j] = "W112"
    /\ semaphore' = semaphore + 1
    /\ cancellation_flags' = [i \in DOMAIN cancellation_flags \ {j} |-> cancellation_flags[i]]
    /\ Goto(j, "W113")
    /\ UNCHANGED outVars
    /\ UNCHANGED <<recipe_jobs, recipe_history, active_jobs, job_threads,
                   locals, cancel_pc, next_id, budget,
                   cancel_true, body_calls, export_invoked, envVars, gateVars>>
    /\ UNCHANGED log

\* wrapped_process, line 112: self.semaphore.release()
Release(j) ==
    /\ pc[j] = "W112"
    /\ semaphore' = semaphore + 1
    /\ Goto(j, "W113")
    /\ UNCHANGED outVars
    /\ UNCHANGED <<recipe_jobs, recipe_history, active_jobs, job_threads,
                   cancellation_flags, locals, cancel_pc, next_id, budget,
                   cancel_true, body_calls, export_invoked, envVars, gateVars>>
    /\ UNCHANGED log

\* _cleanup_job (job_manager.py 307-313)
Cleanup(j) ==
    /\ pc[j] = "W113"
    /\ job_threads' = job_threads \ {j}
    /\ cancellation_flags' = [i \in DOMAIN cancellation_flags \ {j} |-> cancellation_flags[i]]
    /\ pc' = [pc EXCEPT ![j] = "done"]
    /\ locals' = [locals EXCEPT ![j] = InitLocals]
    /\ UNCHANGED outVars
    /\ UNCHANGED <<recipe_jobs, recipe_history, active_jobs, semaphore, cancel_pc,
                   next_id, budget, cancel_true, body_calls, export_invoked, envVars, gateVars>>
    /\ UNCHANGED log

\* cancel_job, lines 135-137: the flag is set under the lock
CancelFlag(j) ==
    /\ budget.cancels > 0
    /\ j < next_id + 1
    /\ j \notin DOMAIN cancel_pc
    /\ budget' = [budget EXCEPT !.cancels = @ - 1]
    /\ cancellation_flags' = IF j \in DOMAIN cancellation_flags
                             THEN [cancellation_flags EXCEPT ![j] = TRUE]
                             ELSE cancellation_flags
    /\ cancel_pc' = [i \in DOMAIN cancel_pc \cup {j} |->
                        IF i # j THEN cancel_pc[i]
                        ELSE IF j \in DOMAIN recipe_jobs THEN recipe_jobs[j].status
                        ELSE "unknown"]
    /\ UNCHANGED outVars
    /\ UNCHANGED <<recipe_jobs, recipe_history, active_jobs, job_threads, semaphore,
                   pc, locals, next_id, cancel_true, body_calls, export_invoked, envVars, gateVars>>
    /\ log' = [log EXCEPT
                  !.cancelled_before_upload =
                      IF j \in DOMAIN recipe_jobs /\ recipe_jobs[j].status \in BeforeUpload
                      THEN @ \cup {j} ELSE @,
                  !.cancelled_at_gate =
                      IF Parked(j) /\ j \in DOMAIN cancellation_flags
                      THEN @ \cup {j} ELSE @]

\* cancel_job, lines 139-147: database.cancel_job, the events, the result
CancelDb(j) ==
    /\ j \in DOMAIN cancel_pc
    /\ recipe_jobs' = db_cancel_job(recipe_jobs, j)
    /\ events' = IF rowcount_positive(recipe_jobs, j)
                 THEN Emitted(events, j, "job_cancelled", "", 0) ELSE events
    /\ cancel_result' = [cancel_result EXCEPT ![j] =
                             IF rowcount_positive(recipe_jobs, j) THEN "True" ELSE "False"]
    /\ UNCHANGED rest_reply
    /\ cancel_true' = IF rowcount_positive(recipe_jobs, j)
                      THEN cancel_true \cup {j} ELSE cancel_true
    /\ cancel_pc' = [i \in DOMAIN cancel_pc \ {j} |-> cancel_pc[i]]
    /\ UNCHANGED <<recipe_history, active_jobs, job_threads, cancellation_flags,
                   semaphore, pc, locals, next_id, budget, body_calls, export_invoked,
                   envVars,
                   gateVars>>
    /\ log' = IF rowcount_positive(recipe_jobs, j) /\ pc[j] \in {"idle", "W106"}
               THEN [log EXCEPT !.cancel_before_acquire = @ \cup {j}]
               ELSE log

\* ---------------------------------------------- JobManager: the publisher

\* update_progress, lines 161-163: the cancellation check
UpdCheck(j) ==
    /\ pc[j] \in DOMAIN Progress
    /\ ~locals[j].in_update
    /\ IF is_cancelled(j)
       THEN Goto(j, Progress[pc[j]].next) /\ UNCHANGED locals
       ELSE locals' = [locals EXCEPT ![j].in_update = TRUE] /\ UNCHANGED pc
    /\ UNCHANGED outVars
    /\ UNCHANGED <<recipe_jobs, recipe_history, active_jobs, job_threads,
                   cancellation_flags, semaphore, cancel_pc, next_id, budget,
                   cancel_true, body_calls, export_invoked, envVars, gateVars>>
    /\ UNCHANGED log

\* update_progress, lines 165-209: the row, the cache, the two events
UpdWrite(j) ==
    /\ pc[j] \in DOMAIN Progress
    /\ locals[j].in_update
    /\ LET u == Progress[pc[j]] IN
        /\ recipe_jobs' = update_job_progress(recipe_jobs, j, status_map(u.stage),
                              u.percent, u.stage, u.message, u.video_title)
        /\ active_jobs' = IF j \in DOMAIN active_jobs
                          THEN [active_jobs EXCEPT ![j] =
                                   [status |-> status_map(u.stage), progress |-> u.percent]]
                          ELSE active_jobs
        /\ events' = Emitted(events, j, "job_progress", u.stage, u.percent)
        /\ Goto(j, u.next)
    /\ locals' = [locals EXCEPT ![j].in_update = FALSE]
    /\ UNCHANGED <<cancel_result, rest_reply>>
    /\ UNCHANGED <<recipe_history, job_threads, cancellation_flags, semaphore,
                   cancel_pc, next_id, budget, cancel_true, body_calls, export_invoked, envVars,
                   gateVars>>
    /\ UNCHANGED log

\* fail_job (job_manager.py 261-297), called at lines 849, 944, 1081, 1156, 1171
FailJob(j) ==
    /\ pc[j] \in DOMAIN FailCalls \cup {"L1171"}
    /\ LET msg == IF pc[j] = "L1171" THEN ErrorMessage(locals[j].error_message)
                  ELSE FailCalls[pc[j]] IN
       IF get_job(recipe_jobs, j)
       THEN /\ recipe_history' = create_history_entry(recipe_history, j,
                                     recipe_jobs[j].video_title, "failed", msg, <<>>)
            /\ recipe_jobs' = db_fail_job(recipe_jobs, j, msg)
            /\ events' = Emitted(events, j, "job_failed", "", 0)
       ELSE UNCHANGED <<recipe_history, recipe_jobs, events>>
    /\ body_calls' = [body_calls EXCEPT ![j] = @ + 1]
    /\ Goto(j, "W112")
    /\ UNCHANGED <<cancel_result, rest_reply>>
    /\ UNCHANGED <<active_jobs, job_threads, cancellation_flags, semaphore, locals,
                   cancel_pc, next_id, budget, cancel_true, export_invoked, envVars, gateVars>>
    /\ UNCHANGED log

\* line 1160: success_targets
Succeeded(results) ==
    LET ok == SelectSeq(results, LAMBDA r : r.ok) IN
    [i \in 1..Len(ok) |-> ok[i].target]

\* a complete_job after which the body goes on to the fail_job of line 1156
CompleteJob_then_fail_job(j) ==
    /\ pc[j] \in {"L1162", "L1167"}
    /\ IF get_job(recipe_jobs, j)
       THEN /\ recipe_history' = create_history_entry(recipe_history, j,
                                     recipe_jobs[j].video_title, "success", NoError,
                                     IF pc[j] = "L1162"
                                     THEN Succeeded(locals[j].upload_results)
                                     ELSE locals[j].upload_targets)
            /\ recipe_jobs' = db_complete_job(recipe_jobs, j)
            /\ events' = Emitted(events, j, "job_complete", "", 0)
       ELSE UNCHANGED <<recipe_history, recipe_jobs, events>>
    /\ body_calls' = [body_calls EXCEPT ![j] = @ + 1]
    /\ Goto(j, "L1156")
    /\ UNCHANGED <<cancel_result, rest_reply>>
    /\ UNCHANGED <<active_jobs, job_threads, cancellation_flags, semaphore, locals,
                   cancel_pc, next_id, budget, cancel_true, export_invoked, envVars, gateVars>>
    /\ UNCHANGED log

\* complete_job (job_manager.py 211-259), called at lines 1162 and 1167
CompleteJob(j) ==
    /\ pc[j] \in {"L1162", "L1167"}
    /\ IF get_job(recipe_jobs, j)
       THEN /\ recipe_history' = create_history_entry(recipe_history, j,
                                     recipe_jobs[j].video_title, "success", NoError,
                                     IF pc[j] = "L1162"
                                     THEN Succeeded(locals[j].upload_results)
                                     ELSE locals[j].upload_targets)
            /\ recipe_jobs' = db_complete_job(recipe_jobs, j)
            /\ events' = Emitted(events, j, "job_complete", "", 0)
       ELSE UNCHANGED <<recipe_history, recipe_jobs, events>>
    /\ body_calls' = [body_calls EXCEPT ![j] = @ + 1]
    /\ Goto(j, IF pc[j] = "L1162" THEN "L1163" ELSE "L1168")
    /\ UNCHANGED <<cancel_result, rest_reply>>
    /\ UNCHANGED <<active_jobs, job_threads, cancellation_flags, semaphore, locals,
                   cancel_pc, next_id, budget, cancel_true, export_invoked, envVars, gateVars>>
    /\ UNCHANGED log

\* ------------------------------------- process_video_job: the collaborators

\* the variables no statement of the pipeline body outside the gate touches
bodyFrame == <<recipe_jobs, recipe_history, active_jobs, job_threads,
               cancellation_flags, semaphore, cancel_pc, next_id, budget,
               cancel_true, body_calls, export_invoked, envVars, gateVars>>

\* the checkpoints without their `return`
Checkpoint_without_return(j) ==
    /\ pc[j] \in DOMAIN Checkpoints(config)
    /\ Goto(j, Checkpoints(config)[pc[j]])
    /\ locals' = IF pc[j] = "L1113"
                 THEN [locals EXCEPT ![j].upload_targets = UploadTargets(config)]
                 ELSE locals
    /\ UNCHANGED outVars
    /\ UNCHANGED bodyFrame
    /\ UNCHANGED log

\* the checkpoints `if jm.is_cancelled(job_id): return`; leaving line 1113
\* the body computes upload_targets (lines 1116-1124)
Checkpoint(j) ==
    /\ pc[j] \in DOMAIN Checkpoints(config)
    /\ Goto(j, IF is_cancelled(j) THEN "W112" ELSE Checkpoints(config)[pc[j]])
    /\ locals' = IF pc[j] = "L1113" /\ ~is_cancelled(j)
                 THEN [locals EXCEPT ![j].upload_targets = UploadTargets(config)]
                 ELSE locals
    /\ UNCHANGED outVars
    /\ UNCHANGED bodyFrame
    /\ UNCHANGED log

\* line 837: downloader._get_info()
GetInfo(j) ==
    /\ pc[j] = "L837"
    /\ \E o \in collab.get_info :
          IF o = "ok" THEN Goto(j, "L840") /\ UNCHANGED locals
          ELSE Raise(j, "get_info")
    /\ UNCHANGED outVars
    /\ UNCHANGED bodyFrame
    /\ UNCHANGED log

\* lines 847-850: downloader._download_video(); vid_id is None
Download(j) ==
    /\ pc[j] = "L847"
    /\ \E o \in collab.download :
          IF o = "ok" THEN Goto(j, "L852") /\ UNCHANGED locals
          ELSE IF o = "none" THEN Goto(j, "L849") /\ UNCHANGED locals
          ELSE Raise(j, "download")
    /\ UNCHANGED outVars
    /\ UNCHANGED bodyFrame
    /\ UNCHANGED log

\* lines 864-871: the cached transcription, or transcriber.transcribe()
Transcribe(j) ==
    /\ pc[j] = "L864"
    /\ \E o \in collab.transcribe :
          IF o = "cached" THEN Goto(j, "L865") /\ UNCHANGED locals
          ELSE IF o = "ok" THEN Goto(j, "L872") /\ UNCHANGED locals
          ELSE Raise(j, "transcribe")
    /\ UNCHANGED outVars
    /\ UNCHANGED bodyFrame
    /\ UNCHANGED log

\* an extract_visual_text() whose exception leaves the pipeline body
ExtractVisualText_propagates(j) ==
    /\ pc[j] = "L881"
    /\ \E o \in collab.visual :
          IF o = "cached"
          THEN /\ Goto(j, "L882")
               /\ locals' = [locals EXCEPT ![j].visual_text = OnScreenText]
          ELSE IF o = "ok"
          THEN /\ Goto(j, "L892")
               /\ locals' = [locals EXCEPT ![j].visual_text = OnScreenText]
          ELSE Raise(j, "extract_visual_text")
    /\ UNCHANGED outVars
    /\ UNCHANGED bodyFrame
    /\ UNCHANGED log

\* lines 879-891: visual_text = "", then the cached visual text (lines
\* 882-885), or extract_visual_text() (line 888), whose failure is only
\* reported (line 891) and leaves visual_text as it was
ExtractVisualText(j) ==
    /\ pc[j] = "L881"
    /\ \E o \in collab.visual :
          IF o = "cached"
          THEN /\ Goto(j, "L882")
               /\ locals' = [locals EXCEPT ![j].visual_text = OnScreenText]
          ELSE IF o = "ok"
          THEN /\ Goto(j, "L892")
               /\ locals' = [locals EXCEPT ![j].visual_text = OnScreenText]
          ELSE /\ Goto(j, "L891")
               /\ locals' = [locals EXCEPT ![j].visual_text = NoText]
    /\ UNCHANGED outVars
    /\ UNCHANGED bodyFrame
    /\ UNCHANGED log

\* lines 908-931: the cached images (dish.jpg and the sorted candidate files,
\* best_image_index left at 0), or extract_dish_image_candidates() with its
\* best_image, candidates and best_index, whose failure is only reported;
\* k is the frame the selector picked when dish.jpg was written
ExtractImages(j) ==
    /\ pc[j] = "L915"
    /\ \E o \in collab.image, k \in collab.best_frame :
          IF o = "cached"
          THEN /\ Goto(j, "L916")
               /\ locals' = [locals EXCEPT ![j].image_cache = Dish(k),
                                           ![j].image_path = Dish(k),
                                           ![j].image_candidates = Candidates,
                                           ![j].best_image_index = 0]
          ELSE IF o = "ok"
          THEN /\ Goto(j, "L932")
               /\ locals' = [locals EXCEPT ![j].image_cache = Dish(k),
                                           ![j].image_path = Dish(k),
                                           ![j].image_candidates = Candidates,
                                           ![j].best_image_index = k]
          ELSE /\ Goto(j, "L931")
               /\ locals' = [locals EXCEPT ![j].image_path = NoImage,
                                           ![j].image_candidates = <<>>,
                                           ![j].best_image_index = 0]
    /\ UNCHANGED outVars
    /\ UNCHANGED bodyFrame
    /\ UNCHANGED log

\* lines 941-945: chef.create_recipe(); not recipe_data
CreateRecipe(j) ==
    /\ pc[j] = "L941"
    /\ \E o \in collab.create_recipe :
          IF o = "ok" THEN Goto(j, "L947") /\ UNCHANGED locals
          ELSE IF o = "none" THEN Goto(j, "L944") /\ UNCHANGED locals
          ELSE Raise(j, "create_recipe")
    /\ UNCHANGED outVars
    /\ UNCHANGED bodyFrame
    /\ UNCHANGED log

\* a single failed upload fails the job
AfterUploads_fails_on_any(targets, results) ==
    LET failed == SelectSeq(results, LAMBDA r : ~r.ok) IN
    IF Len(failed) > 0 THEN "L1156" ELSE "L1167"

\* lines 1152-1167: which finalizer the upload results lead to
AfterUploads(targets, results) ==
    LET failed == SelectSeq(results, LAMBDA r : ~r.ok) IN
    IF Len(failed) > 0 /\ Len(failed) = Len(targets) THEN "L1156"
    ELSE IF Len(failed) > 0 THEN "L1162"
    ELSE "L1167"

\* lines 1128-1146: one turn of `for target in upload_targets`, or the end of
\* the loop
Export(j) ==
    /\ pc[j] = "L1128"
    /\ LET l == locals[j] IN
       IF l.target_ix > Len(l.upload_targets)
       THEN /\ Goto(j, AfterUploads(l.upload_targets, l.upload_results))
            /\ UNCHANGED locals
            /\ UNCHANGED log
       ELSE /\ \E o \in collab.export :
                 /\ locals' = [locals EXCEPT
                       ![j].target_ix = @ + 1,
                       ![j].upload_results =
                           IF l.upload_targets[l.target_ix] \in {"tandoor", "mealie"}
                           THEN Append(@, [target |-> l.upload_targets[l.target_ix],
                                           ok |-> (o = "ok")])
                           ELSE @]
                 /\ log' = IF /\ o = "ok"
                              /\ l.upload_targets[l.target_ix] \in {"tandoor", "mealie"}
                              /\ l.image_path # NoImage
                           THEN [log EXCEPT !.uploaded = @ \cup
                                   {[job |-> j, image |-> l.image_path,
                                     best |-> l.image_cache]}]
                           ELSE log
            /\ UNCHANGED pc
    /\ export_invoked' =
          IF /\ locals[j].target_ix <= Len(locals[j].upload_targets)
             /\ locals[j].upload_targets[locals[j].target_ix] \in {"tandoor", "mealie"}
          THEN export_invoked \cup {j} ELSE export_invoked
    /\ UNCHANGED outVars
    /\ UNCHANGED <<recipe_jobs, recipe_history, active_jobs, job_threads,
                   cancellation_flags, semaphore, cancel_pc, next_id, budget,
                   cancel_true, body_calls, envVars, gateVars>>

\* ------------------------------------ the pending-confirmation table

\* create_pending_upload: a row with status 'pending' whose selected image is
\* the best one
create_pending_upload(store, u, j, best_image_index) ==
    [i \in DOMAIN store \cup {u} |->
        IF i = u THEN [job_id |-> j, status |-> "pending",
                       selected_image_index |-> best_image_index]
        ELSE store[i]]

\* get_pending_upload: the status of the row, or None
get_pending_upload(store, u) == IF u \in DOMAIN store THEN store[u].status ELSE None

\* whether a row is there and still 'pending'
still_pending(store, u) == u \in DOMAIN store /\ store[u].status = "pending"

\* get_pending_upload(...)['selected_image_index']
selected_image_index(store, u) == store[u].selected_image_index

\* confirm_pending_upload / cancel_pending_upload: set the status of a row
\* that is still 'pending'; a confirmation may override the selected image
resolve_pending_upload(store, u, status, index) ==
    IF still_pending(store, u)
    THEN [store EXCEPT ![u].status = status,
                       ![u].selected_image_index = IF index = NoIndex THEN @ ELSE index]
    ELSE store

\* delete_pending_upload
delete_pending_upload(store, u) == [i \in DOMAIN store \ {u} |-> store[i]]

\* --------------------------------- process_video_job: the confirmation gate

\* the variables no statement of the gate touches
gateFrame == <<recipe_jobs, recipe_history, active_jobs, job_threads,
               cancellation_flags, semaphore, cancel_pc, next_id, budget,
               cancel_true, body_calls, export_invoked, envVars, rest_pc, confirm_true,
               resolve_calls, took_effect>>

\* a pop that leaves the key in the dict
Popped_keeps_entry(dict, u) == dict

\* the dict without one key: pending_uploads.pop(upload_id, None)
Popped(dict, u) == [i \in DOMAIN dict \ {u} |-> dict[i]]

\* lines 975-1041: the dict entry, the row, the preview events, the locals
GateCreate(j) ==
    /\ pc[j] = "L980"
    /\ pending_uploads' = [i \in DOMAIN pending_uploads \cup {j} |->
                              IF i = j
                              THEN [confirmed |-> None, event |-> FALSE,
                                    selected_image_index |->
                                        locals[j].best_image_index]
                              ELSE pending_uploads[i]]
    /\ pending_store' = create_pending_upload(pending_store, j, j,
                                              locals[j].best_image_index)
    /\ events' = Emitted(events, j, "recipe_preview", "", 0)
    /\ preview_sent' = preview_sent \cup {j}
    /\ locals' = [locals EXCEPT ![j].elapsed = 0, ![j].confirmed = FALSE,
                                ![j].db_confirmed = FALSE,
                                ![j].selected_idx = locals[j].best_image_index]
    /\ Goto(j, IF 0 < TimeoutPolls THEN "L1045" ELSE "L1074")
    /\ UNCHANGED <<cancel_result, rest_reply>>
    /\ UNCHANGED gateFrame
    /\ UNCHANGED log

\* lines 1045-1047: confirm_event.wait(timeout=poll_interval)
GateWait(j) ==
    /\ pc[j] = "L1045"
    /\ IF pending_uploads[j].event
       THEN /\ locals' = [locals EXCEPT ![j].confirmed = TRUE]
            /\ Goto(j, "L1074")
       ELSE /\ UNCHANGED locals
            /\ Goto(j, "L1050")
    /\ UNCHANGED outVars
    /\ UNCHANGED <<pending_store, pending_uploads, preview_sent>>
    /\ UNCHANGED gateFrame
    /\ UNCHANGED log

\* a poll that never looks at the row
GatePoll_ignores_row(j) ==
    /\ pc[j] = "L1050"
    /\ UNCHANGED locals
    /\ Goto(j, "L1065")
    /\ UNCHANGED outVars
    /\ UNCHANGED <<pending_store, pending_uploads, preview_sent>>
    /\ UNCHANGED gateFrame
    /\ UNCHANGED log

\* lines 1050-1063: the poll of the persisted row
GatePoll(j) ==
    /\ pc[j] = "L1050"
    /\ LET status == get_pending_upload(pending_store, j) IN
       IF status = "confirmed"
       THEN /\ locals' = [locals EXCEPT
                              ![j].db_confirmed = TRUE, ![j].confirmed = TRUE,
                              ![j].selected_idx =
                                  selected_image_index(pending_store, j)]
            /\ Goto(j, "L1074")
       ELSE IF status = "cancelled"
       THEN /\ locals' = [locals EXCEPT ![j].confirmed = TRUE]
            /\ Goto(j, "L1074")
       ELSE IF status = "expired"
       THEN /\ UNCHANGED locals
            /\ Goto(j, "L1074")
       ELSE /\ UNCHANGED locals
            /\ Goto(j, "L1065")
    /\ UNCHANGED outVars
    /\ UNCHANGED <<pending_store, pending_uploads, preview_sent>>
    /\ UNCHANGED gateFrame
    /\ UNCHANGED log

\* a wait loop that never looks at the cancellation flag
GateTick_ignores_cancel(j) ==
    /\ pc[j] = "L1065"
    /\ locals' = [locals EXCEPT ![j].elapsed = @ + 1]
    /\ Goto(j, IF locals[j].elapsed + 1 < TimeoutPolls THEN "L1045" ELSE "L1074")
    /\ UNCHANGED outVars
    /\ UNCHANGED <<pending_store, pending_uploads, preview_sent>>
    /\ UNCHANGED gateFrame
    /\ UNCHANGED log

\* lines 1065-1068 and the loop test of line 1043
GateTick(j) ==
    /\ pc[j] = "L1065"
    /\ locals' = [locals EXCEPT ![j].elapsed = @ + 1]
    /\ Goto(j, IF is_cancelled(j) THEN "L1069"
               ELSE IF locals[j].elapsed + 1 < TimeoutPolls THEN "L1045"
               ELSE "L1074")
    /\ UNCHANGED outVars
    /\ UNCHANGED <<pending_store, pending_uploads, preview_sent>>
    /\ UNCHANGED gateFrame
    /\ UNCHANGED log

\* lines 1069-1071: the job was cancelled during the wait
GateAbort(j) ==
    /\ pc[j] = "L1069"
    /\ pending_store' = delete_pending_upload(pending_store, j)
    /\ pending_uploads' = Popped(pending_uploads, j)
    /\ Goto(j, "W112")
    /\ UNCHANGED outVars
    /\ UNCHANGED <<locals, preview_sent>>
    /\ UNCHANGED gateFrame
    /\ UNCHANGED log

\* line 1074: db_upload = get_pending_upload(upload_id)
GateRead(j) ==
    /\ pc[j] = "L1074"
    /\ locals' = [locals EXCEPT ![j].db_upload = get_pending_upload(pending_store, j)]
    /\ Goto(j, "L1075")
    /\ UNCHANGED outVars
    /\ UNCHANGED <<pending_store, pending_uploads, preview_sent>>
    /\ UNCHANGED gateFrame
    /\ UNCHANGED log

\* line 1075: delete_pending_upload(upload_id)
GateDelete(j) ==
    /\ pc[j] = "L1075"
    /\ pending_store' = delete_pending_upload(pending_store, j)
    /\ Goto(j, "L1078")
    /\ UNCHANGED outVars
    /\ UNCHANGED <<locals, pending_uploads, preview_sent>>
    /\ UNCHANGED gateFrame
    /\ UNCHANGED log

\* a gate that asks again after a timeout
GateOutcome_retries(l, pending_data) ==
    IF ~l.confirmed /\ l.elapsed >= TimeoutPolls THEN "L980"
    ELSE LET was_confirmed ==
                 IF l.db_confirmed THEN l.db_upload = "confirmed"
                 ELSE IF pending_data # None THEN pending_data = "True"
                 ELSE FALSE
         IN IF ~was_confirmed THEN "L1092" ELSE "L1109"

\* lines 1080-1107: the way out of the gate, from the locals and the popped entry
GateOutcome(l, pending_data) ==
    IF ~l.confirmed /\ l.elapsed >= TimeoutPolls THEN "L1081"
    ELSE LET was_confirmed ==
                 IF l.db_confirmed THEN l.db_upload = "confirmed"
                 ELSE IF pending_data # None THEN pending_data = "True"
                 ELSE FALSE
         IN IF ~was_confirmed THEN "L1092" ELSE "L1109"

\* lines 1106-1107 without the `0 <=` test: a negative index counts from the
\* end of the list
SelectedImage_from_the_end(image_path, image_candidates, selected_idx) ==
    IF /\ Len(image_candidates) > 0
       /\ -Len(image_candidates) <= selected_idx
       /\ selected_idx < Len(image_candidates)
    THEN image_candidates[(selected_idx % Len(image_candidates)) + 1]
    ELSE image_path

\* lines 1106-1107: the image to upload, from the index the confirmation left
SelectedImage(image_path, image_candidates, selected_idx) ==
    IF /\ Len(image_candidates) > 0
       /\ 0 <= selected_idx
       /\ selected_idx < Len(image_candidates)
    THEN image_candidates[selected_idx + 1]
    ELSE image_path

\* lines 1078-1107: pending_uploads.pop(upload_id, None) and what follows from it
GatePop(j) ==
    /\ pc[j] = "L1078"
    /\ pending_uploads' = Popped(pending_uploads, j)
    /\ LET pending_data == IF j \in DOMAIN pending_uploads
                           THEN (IF pending_uploads[j].confirmed = None THEN "Unset"
                                 ELSE pending_uploads[j].confirmed)
                           ELSE None
           \* lines 1103-1105: the index of the popped entry, unless the poll
           \* has read the row's
           selected_idx == IF ~locals[j].db_confirmed /\ j \in DOMAIN pending_uploads
                           THEN pending_uploads[j].selected_image_index
                           ELSE locals[j].selected_idx IN
        /\ locals' = IF GateOutcome(locals[j], pending_data) = "L1109"
                     THEN [locals EXCEPT
                             ![j].pending_data = pending_data,
                             ![j].selected_idx = selected_idx,
                             ![j].image_path =
                                 SelectedImage(@, locals[j].image_candidates,
                                               selected_idx)]
                     ELSE [locals EXCEPT ![j].pending_data = pending_data]
        /\ Goto(j, GateOutcome(locals[j], pending_data))
    /\ UNCHANGED outVars
    /\ UNCHANGED <<pending_store, preview_sent>>
    /\ UNCHANGED gateFrame
    /\ UNCHANGED log

\* lines 1093-1101: the recipe_cancelled events, then return
RecipeCancelled(j) ==
    /\ pc[j] = "L1093"
    /\ events' = Emitted(events, j, "recipe_cancelled", "", 0)
    /\ Goto(j, "W112")
    /\ UNCHANGED <<cancel_result, rest_reply>>
    /\ UNCHANGED <<locals, pending_store, pending_uploads, preview_sent>>
    /\ UNCHANGED gateFrame
    /\ UNCHANGED log

\* ------------------------------------------- the REST and WebSocket handlers

\* the variables no confirm / cancel handler touches
handlerFrame == <<recipe_jobs, recipe_history, active_jobs, job_threads,
                  cancellation_flags, semaphore, pc, locals, cancel_pc, next_id,
                  cancel_true, body_calls, export_invoked, envVars, preview_sent>>

\* the dict entry after a handler has written `confirmed`, the selected image
\* index if the request carries one, and set the event
Signalled(dict, u, confirmed, index) ==
    IF u \in DOMAIN dict
    THEN [dict EXCEPT ![u] = [confirmed |-> confirmed, event |-> TRUE,
                              selected_image_index |->
                                  IF index = NoIndex THEN @.selected_image_index
                                  ELSE index]]
    ELSE dict

\* a REST request for upload u starts: lines 756-758 (status 'confirmed') and
\* 775-777 (status 'cancelled'); a request whose UPDATE changed no row is
\* answered 404
RestResolve(u, status, index) ==
    /\ budget.resolves > 0
    /\ u \in preview_sent
    /\ u \notin DOMAIN rest_pc
    /\ budget' = [budget EXCEPT !.resolves = @ - 1]
    /\ resolve_calls' = [resolve_calls EXCEPT ![u] = @ + 1]
    /\ pending_store' = resolve_pending_upload(pending_store, u, status, index)
    /\ IF still_pending(pending_store, u)
       THEN /\ rest_pc' = [i \in DOMAIN rest_pc \cup {u} |->
                              IF i = u THEN [status |-> status, index |-> index]
                              ELSE rest_pc[i]]
            /\ took_effect' = [took_effect EXCEPT ![u] = @ + 1]
            /\ UNCHANGED rest_reply
            /\ log' = IF status = "confirmed"
                      THEN [log EXCEPT !.confirm_index = @ \cup {<<u, index>>}]
                      ELSE [log EXCEPT !.cancel_resolved = @ \cup {u}]
       ELSE /\ UNCHANGED <<rest_pc, took_effect>>
            /\ rest_reply' = [rest_reply EXCEPT ![u] = "404"]
            /\ UNCHANGED log
    /\ UNCHANGED <<events, cancel_result>>
    /\ UNCHANGED <<pending_uploads, confirm_true>>
    /\ UNCHANGED handlerFrame

\* confirm_pending_upload_api, lines 752-758
ConfirmApi(u) == \E index \in collab.index : RestResolve(u, "confirmed", index)

\* cancel_pending_upload_api, lines 774-777
CancelApi(u) == RestResolve(u, "cancelled", NoIndex)

\* lines 760-767 and 779-784: the in-process entry is signalled and the request
\* is answered 'confirmed' / 'cancelled'
RestNotify(u) ==
    /\ u \in DOMAIN rest_pc
    /\ pending_uploads' = Signalled(pending_uploads, u,
                              IF rest_pc[u].status = "confirmed" THEN "True"
                              ELSE "False",
                              rest_pc[u].index)
    /\ rest_reply' = [rest_reply EXCEPT ![u] = rest_pc[u].status]
    /\ confirm_true' = IF rest_pc[u].status = "confirmed" THEN confirm_true \cup {u}
                       ELSE confirm_true
    /\ rest_pc' = [i \in DOMAIN rest_pc \ {u} |-> rest_pc[i]]
    /\ UNCHANGED <<events, cancel_result>>
    /\ UNCHANGED <<pending_store, resolve_calls, took_effect, budget>>
    /\ UNCHANGED handlerFrame
    /\ UNCHANGED log

\* handle_confirm_upload (lines 1200-1210) with confirmed "True",
\* handle_cancel_upload (lines 1213-1219) with confirmed "False"
WsResolve(u, confirmed, index) ==
    /\ budget.resolves > 0
    /\ u \in preview_sent
    /\ budget' = [budget EXCEPT !.resolves = @ - 1]
    /\ resolve_calls' = [resolve_calls EXCEPT ![u] = @ + 1]
    /\ pending_uploads' = Signalled(pending_uploads, u, confirmed, index)
    /\ took_effect' = IF u \in DOMAIN pending_uploads
                      THEN [took_effect EXCEPT ![u] = @ + 1] ELSE took_effect
    /\ log' = IF u \notin DOMAIN pending_uploads THEN log
              ELSE IF confirmed = "True"
              THEN [log EXCEPT !.confirm_index = @ \cup {<<u, index>>}]
              ELSE IF took_effect[u] = 0
              THEN [log EXCEPT !.cancel_resolved = @ \cup {u}]
              ELSE log
    /\ UNCHANGED outVars
    /\ UNCHANGED <<pending_store, rest_pc, confirm_true>>
    /\ UNCHANGED handlerFrame

HandleConfirmUpload(u) == \E index \in collab.index : WsResolve(u, "True", index)

HandleCancelUpload(u) == WsResolve(u, "False", NoIndex)

\* confirm_pending_upload_api / cancel_pending_upload_api served by another
\* process over the same database: the row changes (lines 756, 776), and
\* `upload_id in pending_uploads` (lines 760, 779) is False there, so the
\* entry and the event of the waiting process are not touched
RemoteResolve(u, status, index) ==
    /\ budget.resolves > 0
    /\ u \in preview_sent
    /\ budget' = [budget EXCEPT !.resolves = @ - 1]
    /\ resolve_calls' = [resolve_calls EXCEPT ![u] = @ + 1]
    /\ pending_store' = resolve_pending_upload(pending_store, u, status, index)
    /\ rest_reply' = [rest_reply EXCEPT
                         ![u] = IF still_pending(pending_store, u) THEN status
                                ELSE "404"]
    /\ took_effect' = IF still_pending(pending_store, u)
                      THEN [took_effect EXCEPT ![u] = @ + 1] ELSE took_effect
    /\ log' = IF ~still_pending(pending_store, u) THEN log
              ELSE IF status = "confirmed"
              THEN [log EXCEPT !.confirm_index = @ \cup {<<u, index>>}]
              ELSE [log EXCEPT !.cancel_resolved = @ \cup {u}]
    /\ UNCHANGED <<events, cancel_result>>
    /\ UNCHANGED <<pending_uploads, rest_pc, confirm_true>>
    /\ UNCHANGED handlerFrame

RemoteConfirm(u) == \E index \in collab.index : RemoteResolve(u, "confirmed", index)

RemoteCancel(u) == RemoteResolve(u, "cancelled", NoIndex)

\* the wait of upload u has run for (almost) the whole window, or nobody waits
WindowOver(u) ==
    \/ pc[u] \notin {"L1045", "L1050", "L1065"}
    \/ locals[u].elapsed >= TimeoutPolls - 1

\* cleanup_expired_pending_uploads (called at line 661): a row still 'pending'
\* past its expiry becomes 'expired'
CleanupExpired(u) ==
    /\ budget.expires > 0
    /\ still_pending(pending_store, u)
    /\ WindowOver(u)
    /\ budget' = [budget EXCEPT !.expires = @ - 1]
    /\ pending_store' = resolve_pending_upload(pending_store, u, "expired", NoIndex)
    /\ UNCHANGED outVars
    /\ UNCHANGED <<pending_uploads, rest_pc, confirm_true, resolve_calls, took_effect>>
    /\ UNCHANGED handlerFrame
    /\ UNCHANGED log

\* ------------------------------------------------------------ the restart

\* a start that sweeps nothing
restored_jobs_skips_sweep(tbl) == tbl

\* _restore_active_jobs (job_manager.py 56-72): the rows after the sweep
restored_jobs(tbl) ==
    [j \in DOMAIN tbl |->
        IF j \in get_active_jobs(tbl) /\ tbl[j].status \in StaleStatuses
        THEN db_fail_job(tbl, j, RestartMsg)[j]
        ELSE tbl[j]]

\* _restore_active_jobs: self.active_jobs after the sweep
restored_cache(tbl) ==
    [j \in {i \in get_active_jobs(tbl) : tbl[i].status \notin StaleStatuses} |->
        [status |-> tbl[j].status, progress |-> tbl[j].progress]]

Empty == [i \in {} |-> 0]

\* the process dies and starts again: app.py lines 87-95 build a new JobManager
\* (__init__, job_manager.py 39-54) over the persisted tables
Restart ==
    /\ budget.restarts > 0
    /\ budget' = [budget EXCEPT !.restarts = @ - 1]
    /\ recipe_jobs' = restored_jobs(recipe_jobs)
    /\ active_jobs' = restored_cache(recipe_jobs)
    /\ job_threads' = {}
    /\ cancellation_flags' = Empty
    /\ semaphore' = MAX_CONCURRENT_JOBS
    /\ pending_uploads' = Empty
    /\ cancel_pc' = Empty
    /\ rest_pc' = Empty
    /\ pc' = [j \in AllIds |->
                 IF pc[j] = "idle" /\ j \notin DOMAIN recipe_jobs THEN "idle"
                 ELSE IF pc[j] = "done" THEN "done" ELSE "killed"]
    /\ locals' = [j \in AllIds |-> InitLocals]
    /\ UNCHANGED outVars
    /\ UNCHANGED <<recipe_history, pending_store, next_id, cancel_true, confirm_true,
                   resolve_calls, took_effect, body_calls, preview_sent,
                   export_invoked, envVars>>
    /\ UNCHANGED log

\* ------------------------------------------------------- specifications

Outcomes ==
    [get_info |-> {"ok", "raise"}, download |-> {"ok", "none", "raise"},
     transcribe |-> {"cached", "ok", "raise"}, visual |-> {"cached", "ok", "raise"},
     image |-> {"cached", "ok", "raise"}, create_recipe |-> {"ok", "none", "raise"},
     export |-> {"ok", "fail"}, best_frame |-> {0}, index |-> {NoIndex}]

Configs ==
    [CONFIRM_BEFORE_UPLOAD : BOOLEAN, EXPORT_TO_BOTH : BOOLEAN, OUTPUT_TARGET : {"tandoor"}]

\* nothing has happened yet
NoLog ==
    [cancelled_before_upload |-> {},
     cancel_before_acquire |-> {},
     invoked |-> {},
     confirm_index |-> {},
     cancel_resolved |-> {},
     cancelled_at_gate |-> {},
     uploaded |-> {}]

\* the state after init_db() and JobManager(socketio) over empty tables
InitSystem ==
    /\ recipe_jobs = Empty
    /\ recipe_history = [j \in AllIds |-> <<>>]
    /\ pending_store = Empty
    /\ active_jobs = Empty
    /\ job_threads = {}
    /\ cancellation_flags = Empty
    /\ semaphore = MAX_CONCURRENT_JOBS
    /\ pending_uploads = Empty
    /\ pc = [j \in AllIds |-> "idle"]
    /\ locals = [j \in AllIds |-> InitLocals]
    /\ cancel_pc = Empty
    /\ rest_pc = Empty
    /\ next_id = 1
    /\ events = [j \in AllIds |-> NoEvent]
    /\ cancel_result = [j \in AllIds |-> "none"]
    /\ rest_reply = [j \in AllIds |-> "none"]
    /\ cancel_true = {}
    /\ confirm_true = {}
    /\ resolve_calls = [j \in AllIds |-> 0]
    /\ took_effect = [j \in AllIds |-> 0]
    /\ body_calls = [j \in AllIds |-> 0]
    /\ export_invoked = {}
    /\ preview_sent = {}
    /\ log = NoLog

Init ==
    /\ InitSystem
    /\ config \in Configs
    /\ collab = Outcomes
    /\ max_ids = MaxJobs
    /\ budget = [cancels |-> MaxCancels, resolves |-> MaxResolves,
                 restarts |-> MaxRestarts, expires |-> 1]

SchedulerStep(j) ==
    \/ StartJob(j) \/ Acquire(j) \/ WrappedCheck(j) \/ Release(j) \/ Cleanup(j)
    \/ CancelFlag(j) \/ CancelDb(j)

PublisherStep(j) ==
    \/ UpdCheck(j) \/ UpdWrite(j) \/ FailJob(j) \/ CompleteJob(j)

BodyStep(j) ==
    \/ Checkpoint(j) \/ GetInfo(j) \/ Download(j) \/ Transcribe(j)
    \/ ExtractVisualText(j) \/ ExtractImages(j) \/ CreateRecipe(j) \/ Export(j)

GateStep(j) ==
    \/ GateCreate(j) \/ GateWait(j) \/ GatePoll(j) \/ GateTick(j) \/ GateAbort(j)
    \/ GateRead(j) \/ GateDelete(j) \/ GatePop(j) \/ RecipeCancelled(j)

HandlerStep(u) ==
    \/ ConfirmApi(u) \/ CancelApi(u) \/ RestNotify(u)
    \/ HandleConfirmUpload(u) \/ HandleCancelUpload(u) \/ CleanupExpired(u)

Next ==
    \/ CreateNewJob
    \/ Restart
    \/ \E j \in AllIds :
          SchedulerStep(j) \/ PublisherStep(j) \/ BodyStep(j) \/ GateStep(j)
          \/ HandlerStep(j)

Spec == Init /\ [][Next]_vars

\* The scheduler under load: more jobs than permits, every download failing
\* (no video can be fetched), no confirmation, no restart.
SchedOutcomes ==
    [Outcomes EXCEPT !.get_info = {"ok"}, !.download = {"none"}]

SchedInit ==
    /\ InitSystem
    /\ config = [CONFIRM_BEFORE_UPLOAD |-> FALSE, EXPORT_TO_BOTH |-> FALSE,
                 OUTPUT_TARGET |-> "tandoor"]
    /\ collab = SchedOutcomes
    /\ max_ids = SchedJobs
    /\ budget = [cancels |-> MaxCancels, resolves |-> 0, restarts |-> 0, expires |-> 0]

SchedNext ==
    \/ CreateNewJob
    \/ \E j \in AllIds :
          \/ SchedulerStep(j)
          \/ UpdCheck(j) \/ UpdWrite(j) \/ FailJob(j)
          \/ Checkpoint(j) \/ GetInfo(j) \/ Download(j)

SchedSpec == SchedInit /\ [][SchedNext]_vars

\* The queue: more jobs than permits, nobody cancels, no video's information
\* can be fetched, and every started thread keeps running.
QueueOutcomes ==
    [Outcomes EXCEPT !.get_info = {"raise"}]

QueueInit ==
    /\ InitSystem
    /\ config = [CONFIRM_BEFORE_UPLOAD |-> FALSE, EXPORT_TO_BOTH |-> FALSE,
                 OUTPUT_TARGET |-> "tandoor"]
    /\ collab = QueueOutcomes
    /\ max_ids = SchedJobs
    /\ budget = [cancels |-> 0, resolves |-> 0, restarts |-> 0, expires |-> 0]

\* what the thread of job j does, from acquire() to _cleanup_job
ThreadStep(j) ==
    \/ Acquire(j) \/ WrappedCheck(j) \/ Release(j) \/ Cleanup(j)
    \/ UpdCheck(j) \/ UpdWrite(j) \/ FailJob(j)
    \/ Checkpoint(j) \/ GetInfo(j)

QueueNext ==
    \/ CreateNewJob
    \/ \E j \in AllIds : StartJob(j) \/ ThreadStep(j)

\* a started thread that can take a step is scheduled in the end, and a thread
\* blocked in acquire() is woken once a permit stays free
QueueSpec ==
    QueueInit /\ [][QueueNext]_vars /\ \A j \in AllIds : WF_vars(ThreadStep(j))

\* The image choice: one job behind the confirmation gate, a user who confirms
\* with any index or with none, every outcome of the image stage, every frame
\* the selector may have picked; the other collaborators succeed.
ImageOutcomes ==
    [get_info |-> {"ok"}, download |-> {"ok"}, transcribe |-> {"cached"},
     visual |-> {"cached"}, image |-> {"cached", "ok", "raise"},
     create_recipe |-> {"ok"}, export |-> {"ok"},
     best_frame |-> 0..(NumCandidates - 1),
     index |-> {NoIndex} \cup 0..NumCandidates]

ImageInit ==
    /\ InitSystem
    /\ config = [CONFIRM_BEFORE_UPLOAD |-> TRUE, EXPORT_TO_BOTH |-> FALSE,
                 OUTPUT_TARGET |-> "tandoor"]
    /\ collab = ImageOutcomes
    /\ max_ids = MaxJobs
    /\ budget = [cancels |-> 0, resolves |-> MaxResolves, restarts |-> 0,
                 expires |-> 0]

ImageNext ==
    \/ CreateNewJob
    \/ \E j \in AllIds :
          \/ StartJob(j) \/ Acquire(j) \/ WrappedCheck(j) \/ Release(j) \/ Cleanup(j)
          \/ PublisherStep(j)
          \/ BodyStep(j)
          \/ GateCreate(j) \/ GateWait(j) \/ GatePoll(j) \/ GateTick(j)
          \/ GateRead(j) \/ GateDelete(j) \/ GatePop(j)
          \/ ConfirmApi(j) \/ RestNotify(j) \/ HandleConfirmUpload(j)

ImageSpec == ImageInit /\ [][ImageNext]_vars

\* The same job, every confirmation carrying an index that is not a position
\* of the candidate list: one below 0 that is not the absent index, and
\* len(image_candidates); a failed extraction leaves the list empty.
OutOfRange == {-2, NumCandidates}

RangeOutcomes == [ImageOutcomes EXCEPT !.index = OutOfRange]

RangeInit ==
    /\ InitSystem
    /\ config = [CONFIRM_BEFORE_UPLOAD |-> TRUE, EXPORT_TO_BOTH |-> FALSE,
                 OUTPUT_TARGET |-> "tandoor"]
    /\ collab = RangeOutcomes
    /\ max_ids = MaxJobs
    /\ budget = [cancels |-> 0, resolves |-> MaxResolves, restarts |-> 0,
                 expires |-> 0]

RangeSpec == RangeInit /\ [][ImageNext]_vars

\* Two processes over one database: the job waits at the gate in this one, the
\* confirm and cancel requests are served by the other, and the waiting thread
\* keeps running.
PollOutcomes ==
    [Outcomes EXCEPT !.get_info = {"ok"}, !.download = {"ok"},
                     !.transcribe = {"cached"}, !.visual = {"cached"},
                     !.create_recipe = {"ok"}]

PollInit ==
    /\ InitSystem
    /\ config = [CONFIRM_BEFORE_UPLOAD |-> TRUE, EXPORT_TO_BOTH |-> FALSE,
                 OUTPUT_TARGET |-> "tandoor"]
    /\ collab = PollOutcomes
    /\ max_ids = MaxJobs
    /\ budget = [cancels |-> 0, resolves |-> MaxResolves, restarts |-> 0,
                 expires |-> 0]

\* what the thread of job j does, from acquire() to _cleanup_job, the gate
\* included
PipelineStep(j) ==
    \/ Acquire(j) \/ WrappedCheck(j) \/ Release(j) \/ Cleanup(j)
    \/ PublisherStep(j)
    \/ BodyStep(j)
    \/ GateCreate(j) \/ GateWait(j) \/ GatePoll(j) \/ GateTick(j)
    \/ GateRead(j) \/ GateDelete(j) \/ GatePop(j) \/ RecipeCancelled(j)

PollNext ==
    \/ CreateNewJob
    \/ \E j \in AllIds :
          StartJob(j) \/ PipelineStep(j) \/ RemoteConfirm(j) \/ RemoteCancel(j)

PollSpec ==
    PollInit /\ [][PollNext]_vars /\ \A j \in AllIds : WF_vars(PipelineStep(j))

\* A restart between submissions: two jobs, the process dies and starts again
\* at any moment, no video's information can be fetched.
RestartInit ==
    /\ InitSystem
    /\ config = [CONFIRM_BEFORE_UPLOAD |-> FALSE, EXPORT_TO_BOTH |-> FALSE,
                 OUTPUT_TARGET |-> "tandoor"]
    /\ collab = QueueOutcomes
    /\ max_ids = RestartJobs
    /\ budget = [cancels |-> 0, resolves |-> 0, restarts |-> MaxRestarts,
                 expires |-> 0]

RestartNext ==
    \/ CreateNewJob
    \/ Restart
    \/ \E j \in AllIds : StartJob(j) \/ ThreadStep(j)

RestartSpec == RestartInit /\ [][RestartNext]_vars

\* Cancelling at the gate: one job, every collaborator succeeding, the policy
\* on, one cancel_job at any moment next to the confirm and cancel requests;
\* the thread keeps running and a cancel_job call runs to its end.
GateCancelOutcomes ==
    [Outcomes EXCEPT !.get_info = {"ok"}, !.download = {"ok"},
                     !.transcribe = {"cached"}, !.visual = {"cached"},
                     !.image = {"ok"}, !.create_recipe = {"ok"},
                     !.export = {"ok"}]

GateCancelInit ==
    /\ InitSystem
    /\ config = [CONFIRM_BEFORE_UPLOAD |-> TRUE, EXPORT_TO_BOTH |-> FALSE,
                 OUTPUT_TARGET |-> "tandoor"]
    /\ collab = GateCancelOutcomes
    /\ max_ids = MaxJobs
    /\ budget = [cancels |-> MaxCancels, resolves |-> MaxResolves, restarts |-> 0,
                 expires |-> 1]

GateCancelNext ==
    \/ CreateNewJob
    \/ \E j \in AllIds :
          \/ StartJob(j) \/ PipelineStep(j) \/ GateAbort(j)
          \/ CancelFlag(j) \/ CancelDb(j)
          \/ HandlerStep(j)

GateCancelSpec ==
    /\ GateCancelInit /\ [][GateCancelNext]_vars
    /\ \A j \in AllIds : WF_vars(PipelineStep(j) \/ GateAbort(j))
    /\ \A j \in AllIds : WF_vars(CancelDb(j))

\* The extraction stages: one job, every outcome of every collaborator, any
\* configuration, a user who answers the preview or does not; nobody cancels
\* the job and the process stays up.
ExtractInit ==
    /\ InitSystem
    /\ config \in Configs
    /\ collab = Outcomes
    /\ max_ids = MaxJobs
    /\ budget = [cancels |-> 0, resolves |-> MaxResolves, restarts |-> 0,
                 expires |-> 1]

ExtractNext ==
    \/ CreateNewJob
    \/ \E j \in AllIds :
          StartJob(j) \/ PipelineStep(j) \/ HandlerStep(j)

ExtractSpec ==
    /\ ExtractInit /\ [][ExtractNext]_vars
    /\ \A j \in AllIds : WF_vars(PipelineStep(j))

\* Failing collaborators: one job behind the confirmation gate, every outcome
\* of the acquisition, the transcription and the recipe generation, cancel_job
\* and the confirm/cancel handlers at any moment; the process stays up.
FailOutcomes ==
    [GateCancelOutcomes EXCEPT !.get_info = {"ok", "raise"},
                               !.download = {"ok", "none", "raise"},
                               !.transcribe = {"cached", "ok", "raise"},
                               !.create_recipe = {"ok", "none", "raise"}]

FailInit ==
    /\ InitSystem
    /\ config = [CONFIRM_BEFORE_UPLOAD |-> TRUE, EXPORT_TO_BOTH |-> FALSE,
                 OUTPUT_TARGET |-> "tandoor"]
    /\ collab = FailOutcomes
    /\ max_ids = MaxJobs
    /\ budget = [cancels |-> MaxCancels, resolves |-> MaxResolves, restarts |-> 0,
                 expires |-> 1]

FailSpec ==
    /\ FailInit /\ [][GateCancelNext]_vars
    /\ \A j \in AllIds : WF_vars(PipelineStep(j) \/ GateAbort(j))
    /\ \A j \in AllIds : WF_vars(CancelDb(j))

\* The upload targets: one job, any output_target the settings form may have
\* stored (app.py line 249 stores the field as it comes), both export
\* policies, with and without the confirmation; exports succeed or fail, the
\* other collaborators succeed.
TargetOutcomes == [GateCancelOutcomes EXCEPT !.export = {"ok", "fail"}]

TargetInit ==
    /\ InitSystem
    /\ config \in [CONFIRM_BEFORE_UPLOAD : BOOLEAN, EXPORT_TO_BOTH : BOOLEAN,
                    OUTPUT_TARGET : {"tandoor", "mealie", "other"}]
    /\ collab = TargetOutcomes
    /\ max_ids = MaxJobs
    /\ budget = [cancels |-> 0, resolves |-> MaxResolves, restarts |-> 0,
                 expires |-> 1]

TargetSpec == TargetInit /\ [][ExtractNext]_vars

\* ----------------------------------------------------------------- claims

Status(j) == recipe_jobs[j].status

\* the step is the database half of a cancel_job(j) call
CancelReturns(j) ==
    /\ j \in DOMAIN cancel_pc
    /\ j \notin DOMAIN cancel_pc'
    /\ budget'.restarts = budget.restarts

\* the step is the write of an update_progress call of job j
ProgressWrite(j) ==
    /\ locals[j].in_update
    /\ ~locals'[j].in_update
    /\ pc'[j] # "killed"

\* the step is a complete_job or fail_job call of job j's pipeline
Finalizes(j) == body_calls'[j] = body_calls[j] + 1

\* the step is a restart
Restarts == budget'.restarts < budget.restarts

\* C1: in every reachable state at most MAX_CONCURRENT_JOBS jobs have a stored
\* status that is neither `pending` nor terminal.
C1_RunningAtMostN ==
    Cardinality({j \in DOMAIN recipe_jobs : Status(j) \notin Terminal \cup {"pending"}})
        <= MAX_CONCURRENT_JOBS

\* C2: once cancel_job has returned True for a job, the job's stored status is
\* never `completed` (the safety half of the claim).
C2_CancelledNeverCompleted ==
    \A j \in cancel_true : Status(j) # "completed"

\* C3: the write of an update_progress call never changes a stored status that
\* is terminal.
C3_TerminalNotOverwritten ==
    [][\A j \in DOMAIN recipe_jobs :
          (ProgressWrite(j) /\ Status(j) \in Terminal)
              => recipe_jobs'[j].status = Status(j)]_vars

FailedByPipeline(j) ==
    Status(j) = "failed" /\ recipe_jobs[j].error_message # RestartMsg

C5_ResolvedOnce ==
    \A u \in AllIds : took_effect[u] <= 1

\* C6: a job whose upload a REST confirm has answered 'confirmed' is not
\* failed with the confirmation-timed-out error.
C6_ConfirmOrTimeout ==
    \A u \in confirm_true :
        ~(Status(u) = "failed" /\ recipe_jobs[u].error_message = TimeoutMsg)

\* no confirm or cancel of the upload and no cancel_job of the job has arrived,
\* and the process has not been restarted
Unanswered(j) ==
    /\ resolve_calls[j] = 0
    /\ cancel_result[j] = "none"
    /\ j \notin DOMAIN cancel_pc
    /\ budget.restarts = MaxRestarts

\* C7: a job that went through the confirmation gate with no confirm and no
\* cancel ends `failed` with the timed-out error, with nothing exported and no
\* PendingUpload row left, also when the row was marked `expired` meanwhile.
C7_UnansweredTimesOut ==
    \A j \in preview_sent :
        (Unanswered(j) /\ pc[j] = "done")
            => /\ Status(j) = "failed"
               /\ recipe_jobs[j].error_message = TimeoutMsg
               /\ j \notin export_invoked
               /\ j \notin DOMAIN pending_store

\* C8: a restart fails every job that was neither `pending` nor terminal, with
\* the restart message, and leaves every `pending` job's row as it was.
C8_RestartFailsRunning ==
    [][Restarts =>
          \A j \in DOMAIN recipe_jobs :
              /\ Status(j) \notin Terminal \cup {"pending"}
                    => /\ recipe_jobs'[j].status = "failed"
                       /\ recipe_jobs'[j].error_message = RestartMsg
              /\ Status(j) = "pending" => recipe_jobs'[j] = recipe_jobs[j]]_vars

\* C9: a complete_job / fail_job call on a job that is not terminal adds one
\* HistoryEntry, makes the status terminal and pushes a terminal event; on a
\* job that is already terminal it changes neither the history, nor the job's
\* row, nor the job's last event.
C9_FinalizerOnceOnly ==
    [][\A j \in DOMAIN recipe_jobs :
          Finalizes(j) =>
              IF Status(j) \in Terminal
              THEN /\ recipe_history'[j] = recipe_history[j]
                   /\ recipe_jobs'[j] = recipe_jobs[j]
                   /\ events'[j] = events[j]
              ELSE /\ Len(recipe_history'[j]) = Len(recipe_history[j]) + 1
                   /\ recipe_jobs'[j].status \in {"completed", "failed"}
                   /\ events'[j].name \in {"job_complete", "job_failed"}
                   /\ events'[j] # events[j]]_vars

\* C10: a cancel_job call for an unknown id or for a job that was terminal
\* when it was called returns False, changes no row and pushes no event; any
\* other call returns True, leaves the registered flag set and the status
\* `cancelled`.
C10_CancelResult ==
    [][\A j \in AllIds :
          CancelReturns(j) =>
              IF cancel_pc[j] \in Terminal \cup {"unknown"}
              THEN /\ cancel_result'[j] = "False"
                   /\ recipe_jobs' = recipe_jobs
                   /\ events' = events
              ELSE /\ cancel_result'[j] = "True"
                   /\ recipe_jobs'[j].status = "cancelled"
                   /\ (j \in DOMAIN cancellation_flags => cancellation_flags[j])]_vars

\* the job threads between self.semaphore.acquire() and self.semaphore.release()
PermitHolders ==
    {j \in AllIds : pc[j] \notin {"idle", "W106", "W113", "done", "killed"}}

\* C11: the free permits and the job threads between acquire and release add
\* up to MAX_CONCURRENT_JOBS in every reachable state, and when no started job
\* is still on its way every permit is free.
C11_NoPermitLeak ==
    /\ semaphore + Cardinality(PermitHolders) = MAX_CONCURRENT_JOBS
    /\ (\A j \in AllIds : pc[j] \in {"idle", "done", "killed"})
           => semaphore = MAX_CONCURRENT_JOBS

\* C11, its case: the body raised, the job was failed with the exception's
\* text, and the thread has gone through release and _cleanup_job
C11_Witness ==
    \E j \in DOMAIN recipe_jobs :
        /\ pc[j] = "done"
        /\ semaphore = MAX_CONCURRENT_JOBS
        /\ Status(j) = "failed"
        /\ recipe_jobs[j].error_message = "Error: transcribe"

InBody(j) == pc[j] \notin {"idle", "W106", "W108", "W112", "W113", "done", "killed"}

\* C13: a started job whose thread waits in acquire() has been accepted and is
\* `pending`; its thread leaves acquire() only by taking a free permit; while
\* no thread has returned at most MAX_CONCURRENT_JOBS jobs have left
\* `pending`; and a thread that waits with every permit held gets its body
\* invoked in the end.
C13_ExcessJobsQueue ==
    /\ [](\A j \in AllIds :
             pc[j] = "W106" => (j \in DOMAIN recipe_jobs /\ Status(j) = "pending"))
    /\ []((\A i \in AllIds : pc[i] \notin {"W112", "W113", "done"})
             => Cardinality({j \in DOMAIN recipe_jobs : Status(j) # "pending"})
                    <= MAX_CONCURRENT_JOBS)
    /\ [][\A j \in AllIds :
             (pc[j] = "W106" /\ pc'[j] # "W106")
                 => (semaphore > 0 /\ semaphore' = semaphore - 1)]_vars
    /\ \A j \in AllIds :
          (pc[j] = "W106" /\ semaphore = 0) ~> (j \in log.invoked)

\* C13, its case: MAX_CONCURRENT_JOBS bodies are running and hold every
\* permit, and one more job has been created and started: it is `pending`
\* and its thread waits
C13_Witness ==
    \E j \in DOMAIN recipe_jobs :
        /\ pc[j] = "W106"
        /\ semaphore = 0
        /\ Status(j) = "pending"
        /\ Cardinality({i \in AllIds : InBody(i)}) = MAX_CONCURRENT_JOBS
        /\ \A i \in AllIds : InBody(i) => Status(i) = "downloading"

\* C14: the write of an update_progress call made or finished after
\* cancel_job has returned True for the job changes neither the job's row nor
\* the job's last event.
C14_NoProgressAfterCancel ==
    [][\A j \in cancel_true :
          ProgressWrite(j)
              => /\ recipe_jobs'[j] = recipe_jobs[j]
                 /\ events'[j] = events[j]]_vars

\* C15: no step lowers the progress percent stored for a job or kept in the
\* manager's cache, and every job_progress event carries the percent stored
\* with it, so the percents a subscriber sees never fall.
C15_PercentNeverFalls ==
    [][\A j \in DOMAIN recipe_jobs :
          /\ recipe_jobs'[j].progress >= recipe_jobs[j].progress
          /\ (j \in DOMAIN active_jobs /\ j \in DOMAIN active_jobs')
                => active_jobs'[j].progress >= active_jobs[j].progress
          /\ (events'[j] # events[j] /\ events'[j].name = "job_progress")
                => /\ events'[j].percent = recipe_jobs'[j].progress
                   /\ events'[j].percent >= recipe_jobs[j].progress]_vars

\* C15, its case: a job has gone through the whole pipeline, the confirmation
\* gate included, up to the last progress update
C15_Witness ==
    \E j \in preview_sent :
        /\ events[j].name = "job_progress"
        /\ events[j].stage = "complete"
        /\ events[j].percent = 100
        /\ recipe_jobs[j].progress = 100

C17_ExportUsesSelectedImage ==
    \A up \in log.uploaded : \A c \in log.confirm_index :
        (c[1] = up.job /\ took_effect[up.job] = 1) =>
            /\ c[2] \in 0..(NumCandidates - 1) => up.image = Candidate(c[2])
            /\ c[2] = NoIndex => up.image.frame = up.best.frame

\* C18: a job whose upload was resolved as cancelled (by a REST cancel the
\* store accepted, or by a WebSocket cancel that was the first to reach the
\* entry), and which nobody cancelled with cancel_job, never has an export
\* invoked, and once its thread has ended its row is `cancelled` and its last
\* events are those of lines 1092-1101.
C18_CancelledUploadNeverExports ==
    \A j \in log.cancel_resolved \ log.cancelled_before_upload :
        /\ j \notin export_invoked
        /\ pc[j] = "done" =>
              /\ Status(j) = "cancelled"
              /\ events[j].name = "recipe_cancelled"

\* the statements of the confirmation gate, from the creation of the entry
\* (line 980) to pending_uploads.pop (line 1078)
GateLabels == {"L980", "L1045", "L1050", "L1065", "L1069", "L1074", "L1075", "L1078"}

\* C19: once the thread of a job that showed its preview is past the gate
\* (confirmed, cancelled, timed out, or cancelled with cancel_job during the
\* wait), the job has no row in the pending table and no entry in
\* pending_uploads.
C19_GateLeavesNoRecord ==
    \A j \in preview_sent :
        pc[j] \notin GateLabels \cup {"killed"} =>
            /\ j \notin DOMAIN pending_store
            /\ j \notin DOMAIN pending_uploads

\* the wait timed out and the thread is about to call fail_job at line 1081
C19_Witness ==
    \E j \in preview_sent :
        /\ pc[j] = "L1081"
        /\ ~locals[j].confirmed
        /\ j \notin DOMAIN pending_store
        /\ j \notin DOMAIN pending_uploads

\* the wait loop of job j has a poll of the row ahead
PollAhead(j) ==
    \/ pc[j] \in {"L1045", "L1050"}
    \/ pc[j] = "L1065" /\ locals[j].elapsed + 1 < TimeoutPolls

\* C20: with no in-process signal (the requests are served by another
\* process), a row found `confirmed` while the wait loop has a poll ahead
\* leads to the export being invoked, a row found `cancelled` leads to the job
\* ending `cancelled` through lines 1092-1101 with no export; a job whose
\* upload was cancelled is never exported, one whose upload was confirmed
\* never ends `cancelled`.
C20_RemoteResolutionObserved ==
    \A j \in AllIds :
        /\ (PollAhead(j) /\ get_pending_upload(pending_store, j) = "confirmed")
              ~> (j \in export_invoked /\ locals[j].db_confirmed)
        /\ (PollAhead(j) /\ get_pending_upload(pending_store, j) = "cancelled")
              ~> (/\ pc[j] = "done"
                  /\ Status(j) = "cancelled"
                  /\ events[j].name = "recipe_cancelled"
                  /\ j \notin export_invoked)
        /\ [](rest_reply[j] = "cancelled" => j \notin export_invoked)
        /\ [](rest_reply[j] = "confirmed" => Status(j) # "cancelled")

\* the row was confirmed by the other process, the poll has seen it, the
\* popped entry was never signalled, and the export has been invoked
C20_Witness ==
    \E j \in DOMAIN recipe_jobs :
        /\ rest_reply[j] = "confirmed"
        /\ locals[j].db_confirmed
        /\ locals[j].pending_data = "Unset"
        /\ j \in export_invoked

\* the loop over upload_targets of job j has run to its end
UploadsDone(j) ==
    /\ Len(locals[j].upload_targets) > 0
    /\ locals[j].target_ix > Len(locals[j].upload_targets)

\* the newest history entry of job j
LastEntry(j) == recipe_history[j][Len(recipe_history[j])]

\* C21: when the body of a job nobody cancelled returns after the upload
\* loop, every configured target has been tried; if at least one export
\* succeeded the job is `completed` and its history entry lists the targets
\* that succeeded, and if every export failed the job is `failed`.
C21_PartialExportCompletes ==
    \A j \in DOMAIN recipe_jobs :
        (pc[j] = "W112" /\ UploadsDone(j) /\ ~is_cancelled(j)) =>
            LET results == locals[j].upload_results IN
            /\ Len(results) = Len(locals[j].upload_targets)
            /\ Len(recipe_history[j]) = 1
            /\ IF Len(Succeeded(results)) >= 1
               THEN /\ Status(j) = "completed"
                    /\ LastEntry(j).status = "success"
                    /\ LastEntry(j).output_target = Succeeded(results)
               ELSE /\ Status(j) = "failed"
                    /\ LastEntry(j).status = "failed"

\* both targets configured, the export to Tandoor failed, the export to
\* Mealie succeeded, and the job is completed with Mealie in its history
C21_Witness ==
    \E j \in DOMAIN recipe_jobs :
        /\ pc[j] = "W112" /\ UploadsDone(j) /\ ~is_cancelled(j)
        /\ locals[j].upload_results =
              <<[target |-> "tandoor", ok |-> FALSE], [target |-> "mealie", ok |-> TRUE]>>
        /\ Status(j) = "completed"
        /\ LastEntry(j).output_target = <<"mealie">>

\* C22: a step that creates a job stores one new row, `pending` with progress
\* 0, under an id no row had, registers a clear cancellation flag, starts no
\* thread and invokes no body; and the `pending` row of a job whose flag is
\* clear changes its status only by the first update_progress of the job's
\* body, running under a permit, or by cancel_job, which makes it `cancelled`.
C22_SubmitLeavesPending ==
    [][\A j \in AllIds :
          /\ (j \notin DOMAIN recipe_jobs /\ j \in DOMAIN recipe_jobs') =>
                /\ recipe_jobs'[j].status = "pending"
                /\ recipe_jobs'[j].progress = 0
                /\ \A i \in DOMAIN recipe_jobs : recipe_jobs'[i] = recipe_jobs[i]
                /\ j \in DOMAIN cancellation_flags' /\ ~cancellation_flags'[j]
                /\ pc'[j] = "idle" /\ j \notin job_threads'
                /\ j \notin log'.invoked /\ body_calls'[j] = 0
          /\ (j \in DOMAIN recipe_jobs /\ Status(j) = "pending" /\ ~is_cancelled(j)
                /\ recipe_jobs'[j].status # "pending") =>
                \/ /\ ProgressWrite(j)
                   /\ j \in log.invoked /\ j \in PermitHolders
                   /\ recipe_jobs'[j].status = "downloading"
                \/ /\ CancelReturns(j)
                   /\ recipe_jobs'[j].status = "cancelled"]_vars

\* a job has just been created: pending, progress 0, flag clear, no thread,
\* body not invoked
C22_Witness ==
    \E j \in DOMAIN recipe_jobs :
        /\ pc[j] = "idle" /\ j \notin job_threads
        /\ Status(j) = "pending" /\ recipe_jobs[j].progress = 0
        /\ j \in DOMAIN cancellation_flags /\ ~cancellation_flags[j]
        /\ j \notin log.invoked /\ body_calls[j] = 0

C24_GateOnlyWithPolicy ==
    /\ [](\A j \in DOMAIN recipe_jobs :
             Status(j) = "awaiting_confirmation" => config.CONFIRM_BEFORE_UPLOAD)
    /\ [](~config.CONFIRM_BEFORE_UPLOAD =>
             /\ preview_sent = {}
             /\ DOMAIN pending_store = {}
             /\ DOMAIN pending_uploads = {}
             /\ \A j \in AllIds : events[j].name # "recipe_preview")
    /\ [][~config.CONFIRM_BEFORE_UPLOAD =>
             \A j \in DOMAIN recipe_jobs :
                 (Status(j) = "creating" /\ recipe_jobs'[j].status # "creating")
                     => recipe_jobs'[j].status \in {"uploading", "failed", "cancelled"}]_vars

\* the policy is off and a job has gone on to the upload: it is `uploading`
\* at the export loop and nothing of the gate exists
C24_Witness ==
    \E j \in DOMAIN recipe_jobs :
        /\ ~config.CONFIRM_BEFORE_UPLOAD
        /\ Status(j) = "uploading" /\ pc[j] = "L1128"
        /\ j \notin preview_sent /\ j \notin DOMAIN pending_store

\* the place of a status on the way of a job through the pipeline, in the
\* order in which process_video_job publishes its stages
StatusRank(status) ==
    CASE status = "pending" -> 0
      [] status = "downloading" -> 1
      [] status = "transcribing" -> 2
      [] status = "extracting" -> 3
      [] status = "creating" -> 4
      [] status = "awaiting_confirmation" -> 5
      [] status = "uploading" -> 6
      [] status = "completed" -> 7
      [] OTHER -> 8

\* C25: whenever the stored status of a job changes, the old status is not
\* terminal; the new one is `failed` or `cancelled`, or it lies further along
\* pending, downloading, transcribing, extracting, creating,
\* awaiting_confirmation, uploading, completed; and `completed` follows
\* `uploading`.
C25_StatusMovesForward ==
    [][\A j \in DOMAIN recipe_jobs :
          recipe_jobs'[j].status # Status(j) =>
              /\ Status(j) \notin Terminal
              /\ \/ recipe_jobs'[j].status \in {"failed", "cancelled"}
                 \/ /\ StatusRank(Status(j)) < StatusRank(recipe_jobs'[j].status)
                    /\ recipe_jobs'[j].status = "completed" => Status(j) = "uploading"]_vars

\* progress, current stage, stage message and video title of a row
BusinessStage(row) ==
    [progress |-> row.progress, current_stage |-> row.current_stage,
     stage_message |-> row.stage_message, video_title |-> row.video_title]

\* C26: a step that is not a publisher call of the job's own body
\* (update_progress, complete_job, fail_job) leaves progress, current stage,
\* stage message and video title of the job's row as they are: that covers
\* create_new_job, start_job, the permit, cancel_job and the restart sweep.
\* cancel_job changes nothing of the row but the status, to `cancelled`; the
\* sweep changes nothing but the status, to `failed`, and the error message.
C26_SchedulerKeepsStage ==
    [][\A j \in DOMAIN recipe_jobs :
          /\ ~(ProgressWrite(j) \/ Finalizes(j)) =>
                BusinessStage(recipe_jobs'[j]) = BusinessStage(recipe_jobs[j])
          /\ CancelReturns(j) =>
                recipe_jobs'[j] = [recipe_jobs[j] EXCEPT !.status = "cancelled"]
          /\ Restarts =>
                \/ recipe_jobs'[j] = recipe_jobs[j]
                \/ recipe_jobs'[j] = [recipe_jobs[j] EXCEPT
                                         !.status = "failed",
                                         !.error_message = RestartMsg]]_vars

\* cancel_job has cancelled a job that was downloading: the row keeps the
\* stage it had reached
C26_Witness ==
    \E j \in cancel_true :
        /\ Status(j) = "cancelled"
        /\ recipe_jobs[j].progress = 30
        /\ recipe_jobs[j].current_stage = "download"
        /\ recipe_jobs[j].stage_message = "Video downloaded successfully"
        /\ recipe_jobs[j].video_title = "title"

\* C27: once cancel_job has set the flag of a job parked in the wait loop,
\* the loop makes no further turn (the end of the turn under way goes to the
\* abort of lines 1069-1071); the thread ends with the row gone from the
\* pending table and the entry gone from pending_uploads, without an export
\* having been invoked, and the job is `cancelled`.
C27_CancelAtGate ==
    /\ [][\A j \in AllIds :
             (pc[j] = "L1065" /\ is_cancelled(j) /\ pc'[j] # pc[j])
                 => pc'[j] = "L1069"]_vars
    /\ \A j \in AllIds :
          (j \in log.cancelled_at_gate)
              ~> (/\ pc[j] = "done"
                  /\ j \notin DOMAIN pending_store
                  /\ j \notin DOMAIN pending_uploads
                  /\ j \notin export_invoked
                  /\ Status(j) = "cancelled")
    /\ [](\A j \in log.cancelled_at_gate :
             /\ j \notin export_invoked
             /\ j \in cancel_true => Status(j) = "cancelled")

\* the body has returned from the abort inside the wait loop: cancelled by
\* cancel_job while parked, never confirmed, nothing popped after the loop,
\* no record left
C27_Witness ==
    \E j \in log.cancelled_at_gate :
        /\ pc[j] = "W112" /\ j \in cancel_true
        /\ locals[j].elapsed >= 1 /\ ~locals[j].confirmed
        /\ locals[j].pending_data = None
        /\ j \notin DOMAIN pending_store /\ j \notin DOMAIN pending_uploads
        /\ j \notin export_invoked
        /\ Status(j) = "cancelled"

\* C28: the call of the on-screen-text extraction and the call of the image
\* extraction never raise out of the body and never touch the job's row or
\* its error; after a failed text extraction visual_text is empty, after a
\* failed image extraction there is no thumbnail and no candidate; and the
\* pipeline then reaches the recipe creation with those values.
C28_ExtractionFailureIsAWarning ==
    /\ [][\A j \in AllIds :
             (pc[j] \in {"L881", "L915"} /\ pc'[j] # pc[j])
                 => /\ pc'[j] \in {"L882", "L891", "L892", "L916", "L931", "L932"}
                    /\ locals'[j].error_message = NoError
                    /\ recipe_jobs' = recipe_jobs]_vars
    /\ [](\A j \in AllIds :
             /\ pc[j] = "L891" => locals[j].visual_text = NoText
             /\ pc[j] = "L931" => /\ locals[j].image_path = NoImage
                                  /\ locals[j].image_candidates = <<>>)
    /\ \A j \in AllIds :
          (pc[j] = "L891") ~> (pc[j] = "L941" /\ locals[j].visual_text = NoText)
    /\ \A j \in AllIds :
          (pc[j] = "L931") ~> (/\ pc[j] = "L941"
                               /\ locals[j].image_path = NoImage
                               /\ locals[j].image_candidates = <<>>)

\* both extractions failed and the job is completed, its recipe exported
\* without an image
C28_Witness ==
    \E j \in DOMAIN recipe_jobs :
        /\ pc[j] = "W112" /\ Status(j) = "completed"
        /\ locals[j].visual_text = NoText
        /\ locals[j].image_path = NoImage /\ locals[j].image_candidates = <<>>
        /\ j \in export_invoked
        /\ \A e \in log.uploaded : e.job # j

\* the text e occurs in the text msg
Contains(msg, e) ==
    \E i \in 1..(Len(msg) - Len(e) + 1) : SubSeq(msg, i, i + Len(e) - 1) = e

\* the messages of the exceptions of the three collaborators
CollaboratorErrors == {"get_info", "download", "transcribe", "create_recipe"}

\* C29: an exception of the acquisition, the transcription or the recipe
\* generation is caught inside the body (the thread goes to the handler of
\* line 1170 and nowhere else); the handler's only step is the fail_job call,
\* which stores status `failed` and a message containing the exception's
\* message, in the row and in a history entry; and the thread then gives its
\* permit back and ends.
C29_CollaboratorErrorFailsJob ==
    /\ [][\A j \in AllIds :
             (locals[j].error_message = NoError /\ locals'[j].error_message # NoError)
                 => /\ pc[j] \in {"L837", "L847", "L864", "L941"}
                    /\ pc'[j] = "L1171"
                    /\ locals'[j].error_message \in CollaboratorErrors]_vars
    /\ [][\A j \in AllIds :
             (pc[j] = "L1171" /\ pc'[j] # pc[j])
                 => /\ pc'[j] = "W112"
                    /\ Finalizes(j)
                    /\ recipe_jobs'[j].status = "failed"
                    /\ Contains(recipe_jobs'[j].error_message, locals[j].error_message)
                    /\ Len(recipe_history'[j]) = Len(recipe_history[j]) + 1
                    /\ recipe_history'[j][Len(recipe_history'[j])].status = "failed"
                    /\ recipe_history'[j][Len(recipe_history'[j])].error_message
                           = recipe_jobs'[j].error_message]_vars
    /\ \A j \in AllIds :
          (pc[j] = "L1171") ~> (pc[j] = "done" /\ semaphore = MAX_CONCURRENT_JOBS)

\* the transcription raised, fail_job has stored the failure with the
\* exception's message, and the permit is back
C29_Witness ==
    \E j \in DOMAIN recipe_jobs :
        /\ pc[j] = "W113" /\ semaphore = MAX_CONCURRENT_JOBS
        /\ locals[j].error_message = "transcribe"
        /\ Status(j) = "failed"
        /\ recipe_jobs[j].error_message = "Error: transcribe"

\* the states of the job state machine
JobStates ==
    {"pending", "downloading", "transcribing", "extracting", "creating",
     "awaiting_confirmation", "uploading", "completed", "failed", "cancelled"}

\* the stage names of the update_progress calls of process_video_job
PublishedStages == {Progress[l].stage : l \in DOMAIN Progress}

\* C30: status_map sends info and download to downloading, transcribe to
\* transcribing, visual and image to extracting, evaluate to creating, preview
\* to awaiting_confirmation, upload to uploading, complete to completed, error
\* to failed and cancelled to cancelled; every stage name the pipeline
\* publishes is sent to a state of the job state machine; and every
\* update_progress that writes stores the stage it was given together with
\* the status the table gives for it, never `processing`.
C30_StageTable ==
    /\ status_map("info") = "downloading" /\ status_map("download") = "downloading"
    /\ status_map("transcribe") = "transcribing"
    /\ status_map("visual") = "extracting" /\ status_map("image") = "extracting"
    /\ status_map("evaluate") = "creating"
    /\ status_map("preview") = "awaiting_confirmation"
    /\ status_map("upload") = "uploading"
    /\ status_map("complete") = "completed"
    /\ status_map("error") = "failed"
    /\ status_map("cancelled") = "cancelled"
    /\ \A stage \in PublishedStages : status_map(stage) \in JobStates
    /\ [][\A j \in DOMAIN recipe_jobs :
             ProgressWrite(j)
                 => /\ recipe_jobs'[j].current_stage = Progress[pc[j]].stage
                    /\ recipe_jobs'[j].status = status_map(Progress[pc[j]].stage)
                    /\ recipe_jobs'[j].status \in JobStates
                    /\ j \in DOMAIN active_jobs'
                          => active_jobs'[j].status = recipe_jobs'[j].status]_vars
    /\ [](\A j \in DOMAIN recipe_jobs : Status(j) \in JobStates)

\* the `preview` update has been written: the job waits for the confirmation
C30_Witness ==
    \E j \in DOMAIN recipe_jobs :
        /\ recipe_jobs[j].current_stage = "preview"
        /\ Status(j) = "awaiting_confirmation"
        /\ pc[j] = "L980"

\* the rows of the pending table that belong to job j and are still `pending`
LivePending(j) ==
    {u \in DOMAIN pending_store :
        pending_store[u].job_id = j /\ pending_store[u].status = "pending"}

\* C31: a job has at most one row of the pending table with status `pending`;
\* the statement that creates the record runs only for a job that has had no
\* record yet, and once a job has had one its thread never comes back to the
\* confirmation step, whatever the way out of the wait was.
C31_OnePendingUploadPerJob ==
    /\ [](\A j \in AllIds : Cardinality(LivePending(j)) <= 1)
    /\ [][\A j \in AllIds :
             (pc[j] = "L980" /\ pc'[j] # pc[j])
                 => /\ j \notin preview_sent
                    /\ j \notin DOMAIN pending_store
                    /\ j \notin DOMAIN pending_uploads
                    /\ LivePending(j)' = {j}]_vars
    /\ [][\A j \in preview_sent :
             pc[j] # "L980" => pc'[j] \notin {"L955", "L980"}]_vars

\* the confirmation timed out: the job has failed with the timeout
\* message, its thread has ended, the one record it had is gone
C31_Witness ==
    \E j \in preview_sent :
        /\ pc[j] = "done"
        /\ Status(j) = "failed" /\ recipe_jobs[j].error_message = TimeoutMsg
        /\ LivePending(j) = {}
        /\ j \notin DOMAIN pending_uploads

\* C32: a job's status becomes `completed` only in a step of a thread whose
\* upload_results hold a successful export of that job.
C32_CompletedOnlyAfterExport ==
    [][\A j \in DOMAIN recipe_jobs :
          (Status(j) # "completed" /\ recipe_jobs'[j].status = "completed")
              => \E i \in DOMAIN locals[j].upload_results :
                     locals[j].upload_results[i].ok]_vars

\* C33: a job whose upload got the answer 'cancelled' from the REST cancel
\* never has an export invoked.
C33_AnsweredCancelNeverExports ==
    \A u \in preview_sent : rest_reply[u] = "cancelled" => u \notin export_invoked

\* C34: every job whose pipeline body was invoked has a terminal stored
\* status in the end, when its thread and a cancel_job under way keep running.
C34_InvokedJobEndsTerminal ==
    \A j \in AllIds :
        (j \in log.invoked) ~> (j \in DOMAIN recipe_jobs /\ Status(j) \in Terminal)

\* the events that tell a client that a job has ended
TerminalEvents == {"job_complete", "job_failed", "job_cancelled"}

\* C35: once the last event pushed for a job is job_complete, job_failed or
\* job_cancelled, the next event pushed for it is not a job_progress.
C35_TerminalEventIsLast ==
    [][\A j \in AllIds :
          events[j].name \in TerminalEvents
              => ~(events'[j] # events[j] /\ events'[j].name = "job_progress")]_vars

C37_FlagStaysSet ==
    /\ [](\A j \in AllIds : pc[j] \notin {"idle", "done"} => j \in DOMAIN cancellation_flags)
    /\ [][\A j \in AllIds : (pc[j] = "idle" /\ pc'[j] # "idle")
                                 => j \in DOMAIN cancellation_flags]_vars
    /\ [][\A j \in DOMAIN cancellation_flags :
             /\ j \notin DOMAIN cancellation_flags'
                    => (pc[j] = "W113" /\ pc'[j] = "done" /\ semaphore' = semaphore)
             /\ (is_cancelled(j) /\ j \in DOMAIN cancellation_flags')
                    => cancellation_flags'[j]]_vars
    /\ [](\A j \in log.cancelled_before_upload \cup log.cancelled_at_gate :
             pc[j] # "done" => is_cancelled(j))

\* the body of a cancelled job has returned and its permit is back; the
\* flag is still registered and set
C37_Witness ==
    \E j \in log.invoked :
        /\ pc[j] = "W113"
        /\ j \in DOMAIN cancellation_flags /\ cancellation_flags[j]
        /\ semaphore = MAX_CONCURRENT_JOBS

\* a table with one row, of job 1, whose stored title is `stored`
OneRow(stored) == [db_create_job(<<>>, 1) EXCEPT ![1].video_title = stored]

\* C38: update_job_progress called with no title (None or the empty text)
\* leaves the stored title as it is, and called with a title stores that
\* title; in the running system a job's stored title changes only in an
\* update_progress step that carries a title, to that title, and every
\* update_progress that carries none leaves it.
C38_TitleKept ==
    /\ \A stored \in {NoTitle, "title"}, given \in {NoTitle, ""} :
          update_job_progress(OneRow(stored), 1, "downloading", 20, "download",
                              "Downloading video...", given)[1].video_title = stored
    /\ \A stored \in {NoTitle, "title"} :
          update_job_progress(OneRow(stored), 1, "downloading", 15, "info",
                              "Video: other", "other")[1].video_title = "other"
    /\ [][\A j \in DOMAIN recipe_jobs :
             /\ recipe_jobs'[j].video_title # recipe_jobs[j].video_title
                    => /\ ProgressWrite(j)
                       /\ Progress[pc[j]].video_title \notin {NoTitle, ""}
                       /\ recipe_jobs'[j].video_title = Progress[pc[j]].video_title
             /\ (ProgressWrite(j) /\ Progress[pc[j]].video_title = NoTitle)
                    => recipe_jobs'[j].video_title = recipe_jobs[j].video_title]_vars

\* the title stored by the second update is still there when the job is
\* completed, many title-less updates later
C38_Witness ==
    \E j \in DOMAIN recipe_jobs :
        /\ Status(j) = "completed" /\ recipe_jobs[j].current_stage = "complete"
        /\ recipe_jobs[j].video_title = "title"

\* C39: a confirmation whose selected image index is not a position of the
\* candidate list (below 0, at or past its length, or any index when the list
\* is empty) raises nothing at lines 1106-1107: the job that went on to export
\* uploads the image the extraction picked (no image when the extraction left
\* none), and the only way such a job fails is the timeout of the gate.
C39_OutOfRangeIndexKeepsBestImage ==
    \A j \in AllIds :
        (/\ \E c \in log.confirm_index : c[1] = j
         /\ \A c \in log.confirm_index :
               c[1] = j => /\ c[2] # NoIndex
                           /\ c[2] \notin 0..(Len(locals[j].image_candidates) - 1))
        => /\ j \in export_invoked =>
                 /\ locals[j].image_path = locals[j].image_cache
                 /\ \A e \in log.uploaded : e.job = j => e.image = e.best
           /\ (j \in DOMAIN recipe_jobs /\ Status(j) = "failed") =>
                 recipe_jobs[j].error_message = TimeoutMsg

\* a job confirmed with index -2 over two candidates has completed with
\* the selector's dish.jpg uploaded
C39_Witness ==
    \E j \in DOMAIN recipe_jobs :
        /\ <<j, -2>> \in log.confirm_index
        /\ Len(locals[j].image_candidates) = NumCandidates
        /\ Status(j) = "completed"
        /\ \E e \in log.uploaded : e.job = j /\ e.image = e.best

====
